---------------------------- MODULE Spec2Model ----------------------------
(***************************************************************************)
(* A model of steelsafe: the encryption/authentication pipeline            *)
(* (src/src/crypto.rs) and the password database (src/src/db.rs).          *)
(*                                                                         *)
(* Byte strings are sequences of 0..255, text is a sequence of one-        *)
(* character strings.  The cryptographic primitives the pipeline calls     *)
(* (Argon2, XChaCha20-Poly1305, the CSPRNG) are modelled as ideal          *)
(* primitives: the key derivation is injective, a tag verifies only for    *)
(* the key, nonce, additional data and ciphertext bytes it was computed    *)
(* for, and the random generator never repeats a value.  Everything the    *)
(* repository's own code does around them (padding, the additional data,   *)
(* the order of the steps, the error conversion, the table constraints)    *)
(* is modelled as written.                                                 *)
(***************************************************************************)
EXTENDS Integers, Sequences, FiniteSets, TLC

VARIABLES
    rng,        \* number of values drawn from the CSPRNG so far
    encCalls,   \* history of encrypt_and_authenticate calls: input, password, result
    din,        \* the DecryptionInput about to be decrypted (NoInput before it is built)
    decRes,     \* the last decrypt_and_verify call: password and result (NoCall before)
    dbMeta,     \* the metadata table: the recorded SchemaVersion (NoVersion when no row)
    dbItems,    \* the item table: the sequence of rows in rowid order
    dbHandle,   \* per process: the Database handle Database::open returned (NoHandle if none)
    dbLast,     \* the last Database call: its kind, input, result and the store before it
    dbTables,   \* the names of the tables the store holds
    frame,      \* the pipeline call in progress, step by step: its locals and buffers
    conn,       \* per process: how far its Database::open has got, statement by statement
    dbLock,     \* the process that holds the store's write lock (NoProc when free)
    opLog,      \* the statements executed on the metadata table, in order
    dbCalls,    \* per process: its last add_item call (none before the first)
    ui,         \* the tui::State of the running program (none before State::new)
    clipboard,  \* the text on the system clipboard (none before the first copy)
    uiLast,     \* the last event handled: the event, its result, the calls it made
    IS_OPEN,    \* screen.rs:18: the flag that says a ScreenGuard is live
    terminal,   \* the terminal: raw mode on or off, alternate screen entered or not
    thread      \* per thread: how far its ScreenGuard::open or drop has got

cryptoVars == <<rng, encCalls, din, decRes>>
dbVars == <<dbMeta, dbItems, dbHandle, dbLast, dbTables>>
callVars == <<frame>>
concVars == <<conn, dbLock, opLog, dbCalls>>
tuiVars == <<ui, clipboard, uiLast>>
screenVars == <<IS_OPEN, terminal, thread>>
vars == <<rng, encCalls, din, decRes, dbMeta, dbItems, dbHandle, dbLast, dbTables,
          frame, conn, dbLock, opLog, dbCalls, ui, clipboard, uiLast,
          IS_OPEN, terminal, thread>>

---------------------------------------------------------------------------
(* Program constants. *)

PADDING_BLOCK_SIZE == 256
NONCE_LEN == 24
RECOMMENDED_SALT_LEN == 16
TAG_LEN == 16
SCHEMA_VERSION == 1

(* Bounds of the model. *)

MaxBlocks == 1      \* plaintext lengths go up to MaxBlocks * 256 + 1
MaxCalls == 2       \* encrypt_and_authenticate calls in a freshness run
MaxAlter == 1       \* stored fields altered between encryption and decryption
MaxItems == 2       \* rows the item table may hold
MaxOpens == 2       \* times one process opens the store, statement by statement
MaxScreenOpens == 2 \* times one thread calls ScreenGuard::open
MaxSpurious == 1    \* times one thread's compare-and-exchange fails spuriously

---------------------------------------------------------------------------
(* Result<T, Error> and Option<T>. *)

Ok(v) == [ok |-> TRUE, val |-> v, err |-> "none"]
Err(e) == [ok |-> FALSE, val |-> <<>>, err |-> e]
None == [some |-> FALSE, val |-> <<>>]
Some(v) == [some |-> TRUE, val |-> v]

---------------------------------------------------------------------------
(* Padding: block_padding::Iso7816, as called by the pipeline. *)

\* Faulty variant: the length rounded up to the next multiple of the block size, with
\* no extra block for a length that is a multiple already.
total_len_ceil(n) ==
    ((n + PADDING_BLOCK_SIZE - 1) \div PADDING_BLOCK_SIZE) * PADDING_BLOCK_SIZE

\* crypto.rs:71  (len / PADDING_BLOCK_SIZE + 1) * PADDING_BLOCK_SIZE
total_len(n) == ((n \div PADDING_BLOCK_SIZE) + 1) * PADDING_BLOCK_SIZE

\* crypto.rs:72-74  vec![0; total_len], then copy_from_slice into [..len];
\* the slice index panics when len > total_len.
padded_buffer(secret, total) ==
    IF Len(secret) > total
    THEN Err("panic")
    ELSE Ok([i \in 1..total |-> IF i <= Len(secret) THEN secret[i] ELSE 0])

\* Iso7816::raw_pad(block, pos): panics when pos >= block.len(); otherwise
\* block[pos] = 0x80 and every later byte is 0.  (pos is 0-based.)
raw_pad(block, pos) ==
    IF pos >= Len(block)
    THEN Err("panic")
    ELSE Ok([i \in 1..Len(block) |->
                IF i <= pos THEN block[i]
                ELSE IF i = pos + 1 THEN 128
                ELSE 0])

\* Iso7816::raw_unpad(data): scan backward from the end; 0x00 is skipped,
\* 0x80 ends the scan (the data before it is returned), any other byte, or
\* running out of bytes, is an UnpadError.  The byte the scan stops at is the
\* last byte that is not 0x00: last_nonzero finds its 1-based index in
\* lo..hi (0 when there is none), looking at the later half first.
RECURSIVE last_nonzero(_, _, _)
last_nonzero(data, lo, hi) ==
    IF lo > hi THEN 0
    ELSE IF lo = hi THEN (IF data[lo] # 0 THEN lo ELSE 0)
    ELSE LET mid == (lo + hi) \div 2
             later == last_nonzero(data, mid + 1, hi)
         IN  IF later # 0 THEN later ELSE last_nonzero(data, lo, mid)

raw_unpad(data) ==
    LET i == last_nonzero(data, 1, Len(data))
    IN  IF i = 0 THEN Err("UnpadError")
        ELSE IF data[i] = 128 THEN Ok(SubSeq(data, 1, i - 1))
        ELSE Err("UnpadError")

---------------------------------------------------------------------------
(* The additional authenticated data: #[derive(Serialize)] AdditionalData  *)
(* through serde_json::to_string.  Text is a sequence of characters.       *)

\* serde_json's string escaping, for the characters of the model's alphabet:
\* a quote and a backslash are written with a backslash before them.
escape_char(c) ==
    IF c = "\"" THEN <<"\\", "\"">>
    ELSE IF c = "\\" THEN <<"\\", "\\">>
    ELSE <<c>>

RECURSIVE escape_str(_)
escape_str(s) ==
    IF s = <<>> THEN <<>> ELSE escape_char(Head(s)) \o escape_str(Tail(s))

\* A JSON string: the escaped text between quotes.
json_str(s) == <<"\"">> \o escape_str(s) \o <<"\"">>

\* Option<&str>: null or the string.
json_opt_str(o) == IF o.some THEN json_str(o.val) ELSE <<"n", "u", "l", "l">>

DigitChars == <<"0", "1", "2", "3", "4", "5", "6", "7", "8", "9">>

\* n written in decimal with exactly w digits (leading zeros).
RECURSIVE digits(_, _)
digits(n, w) ==
    IF w = 0 THEN <<>> ELSE Append(digits(n \div 10, w - 1), DigitChars[(n % 10) + 1])

\* chrono's serde format of DateTime<Utc>: RFC 3339, the fraction of a second
\* written with 0, 3, 6 or 9 digits (the fewest that lose nothing), then "Z".
fraction(ns) ==
    IF ns = 0 THEN <<>>
    ELSE IF ns % 1000000 = 0 THEN <<".">> \o digits(ns \div 1000000, 3)
    ELSE IF ns % 1000 = 0 THEN <<".">> \o digits(ns \div 1000, 6)
    ELSE <<".">> \o digits(ns, 9)

json_datetime(t) ==
    <<"\"">> \o digits(t.year, 4) \o <<"-">> \o digits(t.month, 2) \o <<"-">>
        \o digits(t.day, 2) \o <<"T">> \o digits(t.hour, 2) \o <<":">>
        \o digits(t.min, 2) \o <<":">> \o digits(t.sec, 2) \o fraction(t.nano)
        \o <<"Z", "\"">>

KeyAccount == <<"\"", "a", "c", "c", "o", "u", "n", "t", "\"", ":">>
KeyLabel == <<"\"", "l", "a", "b", "e", "l", "\"", ":">>
KeyLastModifiedAt ==
    <<"\"", "l", "a", "s", "t", "_", "m", "o", "d", "i", "f", "i", "e", "d",
      "_", "a", "t", "\"", ":">>

\* Faulty variant: the account is left out of the additional data.
additional_data_without_account(account, label, last_modified_at) ==
    <<"{">> \o KeyLabel \o json_str(label) \o <<",">>
        \o KeyLastModifiedAt \o json_datetime(last_modified_at) \o <<"}">>

\* crypto.rs:28-33: the fields in declaration order account, label,
\* last_modified_at; serde_json writes them compactly in that order.
additional_data_str(account, label, last_modified_at) ==
    <<"{">> \o KeyAccount \o json_opt_str(account) \o <<",">>
        \o KeyLabel \o json_str(label) \o <<",">>
        \o KeyLastModifiedAt \o json_datetime(last_modified_at) \o <<"}">>

---------------------------------------------------------------------------
(* The primitives, idealised. *)

\* Faulty variant: the key depends on the password alone.
hash_password_unsalted(password, salt) == [password |-> password, salt |-> 0]

\* Argon2::default().hash_password_into(password, salt, key): deterministic
\* in (password, salt), and two different (password, salt) give different
\* keys.  It fails only for a password of 2^32 bytes or more, beyond every
\* bound of the model.
hash_password_into(password, salt) == [password |-> password, salt |-> salt]

\* XChaCha20Poly1305 encrypt: the ciphertext of msg under (key, nonce),
\* followed by the 16-byte tag over (aad, ciphertext).  The value records
\* what was sealed; delta records, per position of the encrypted_secret
\* (body first, tag last), by how much a byte has since been changed.
aead_encrypt(key, nonce, msg, aad) ==
    [key |-> key, nonce |-> nonce, aad |-> aad, msg |-> msg, delta |-> [i \in {} |-> 0]]

\* The length of an encrypted_secret: the body and the tag.
secret_len(ct) == Len(ct.msg) + TAG_LEN

\* Positions of the encrypted_secret whose byte differs from the sealed one.
changed(ct) == DOMAIN ct.delta

\* Faulty variant: the body is decrypted and handed out whether or not the tag
\* verifies; under another key or nonce it decrypts to noise.
aead_decrypt_unverified(key, nonce, ct, aad) ==
    Ok([i \in 1..Len(ct.msg) |->
            IF key = ct.key /\ nonce = ct.nonce
            THEN (ct.msg[i] + (IF i \in DOMAIN ct.delta THEN ct.delta[i] ELSE 0)) % 256
            ELSE 65])

\* XChaCha20Poly1305 decrypt: the tag is verified first, and it verifies
\* only under the sealing key, nonce and aad with no byte of body or tag
\* changed; only then is the body decrypted (to the sealed message).
aead_decrypt(key, nonce, ct, aad) ==
    IF key = ct.key /\ nonce = ct.nonce /\ aad = ct.aad /\ changed(ct) = {}
    THEN Ok(ct.msg)
    ELSE Err("chacha20poly1305::Error")

\* rand::random() on the thread's CSPRNG, r values drawn so far: the value and
\* the generator after the draw.  A value is named by the draw that made it.
random(r) == [value |-> r + 1, next |-> r + 1]

\* error.rs:40-65: the #[from] conversions the ? operator applies.
from_error(e) ==
    IF e = "chacha20poly1305::Error" THEN "XChaCha20Poly1305"
    ELSE IF e = "UnpadError" THEN "Unpad"
    ELSE IF e = "argon2::Error" THEN "Argon2"
    ELSE IF e = "InvalidLength" THEN "InvalidLength"
    ELSE IF e = "serde_json::Error" THEN "Json"
    ELSE e

---------------------------------------------------------------------------
(* EncryptionInput::encrypt_and_authenticate, crypto.rs:63-112. *)

\* Faulty variant: the secret is encrypted as it is, without padding.
pad_secret_skipped(unpadded_secret) == Ok(unpadded_secret)

\* crypto.rs:70-75: the padded copy of the secret.
pad_secret(unpadded_secret) ==
    LET buffer == padded_buffer(unpadded_secret, total_len(Len(unpadded_secret)))
    IN  IF buffer.ok THEN raw_pad(buffer.val, Len(unpadded_secret)) ELSE buffer

\* Faulty variant: the nonce is never filled in and stays all zero.
random_salt_zero_nonce(r) ==
    LET s == random(r)
    IN  [kdf_salt |-> s.value, auth_nonce |-> 0, next |-> s.next]

\* crypto.rs:85-87: the salt, then the nonce, each a fresh draw.
random_salt_and_nonce(r) ==
    LET s == random(r)
        n == random(s.next)
    IN  [kdf_salt |-> s.value, auth_nonce |-> n.value, next |-> n.next]

\* The call: the Result, and the generator after it.  A panic while padding
\* happens before anything is drawn.
encrypt_and_authenticate(self, encryption_password, r) ==
    LET padded_secret == pad_secret(self.plaintext_secret)
        additional_data ==
            additional_data_str(self.account, self.label, self.last_modified_at)
        rnd == random_salt_and_nonce(r)
        key == hash_password_into(encryption_password, rnd.kdf_salt)
    IN  IF ~padded_secret.ok
        THEN [result |-> padded_secret, rng |-> r]
        ELSE [result |-> Ok([encrypted_secret |->
                                aead_encrypt(key, rnd.auth_nonce,
                                             padded_secret.val, additional_data),
                             kdf_salt |-> rnd.kdf_salt,
                             auth_nonce |-> rnd.auth_nonce]),
              rng |-> rnd.next]

---------------------------------------------------------------------------
(* DecryptionInput::decrypt_and_verify, crypto.rs:130-165. *)

\* Faulty variant: the length is computed but the buffer is not truncated to it.
unpad_secret_untruncated(plaintext_secret) ==
    LET unpadded == raw_unpad(plaintext_secret)
    IN  IF unpadded.ok THEN Ok(plaintext_secret) ELSE Err(from_error(unpadded.err))

\* crypto.rs:160-164: the length before the padding, then truncate to it.
unpad_secret(plaintext_secret) ==
    LET unpadded == raw_unpad(plaintext_secret)
    IN  IF unpadded.ok
        THEN Ok(SubSeq(plaintext_secret, 1, Len(unpadded.val)))
        ELSE Err(from_error(unpadded.err))

\* Faulty variant: the body is decrypted with the stream cipher alone and the tag is
\* never verified; a changed byte changes the byte it decrypts to, and the
\* wrong key or nonce decrypts to noise.
decrypt_unverified(self, decryption_password) ==
    LET key == hash_password_into(decryption_password, self.kdf_salt)
        ct == self.encrypted_secret
        body == [i \in 1..Len(ct.msg) |->
                    IF key = ct.key /\ self.auth_nonce = ct.nonce
                    THEN (ct.msg[i] + (IF i \in DOMAIN ct.delta THEN ct.delta[i] ELSE 0)) % 256
                    ELSE 65]
    IN  unpad_secret(body)

\* Faulty variant: a wrong password is recognised and reported on its own, before
\* the ciphertext is verified.
decrypt_reporting_wrong_password(self, decryption_password) ==
    LET additional_data ==
            additional_data_str(self.account, self.label, self.last_modified_at)
        key == hash_password_into(decryption_password, self.kdf_salt)
        plaintext_secret ==
            aead_decrypt(key, self.auth_nonce, self.encrypted_secret, additional_data)
    IN  IF key # self.encrypted_secret.key THEN Err("Argon2")
        ELSE IF plaintext_secret.ok
        THEN unpad_secret(plaintext_secret.val)
        ELSE Err(from_error(plaintext_secret.err))

decrypt_and_verify(self, decryption_password) ==
    LET additional_data ==
            additional_data_str(self.account, self.label, self.last_modified_at)
        key == hash_password_into(decryption_password, self.kdf_salt)
        plaintext_secret ==
            aead_decrypt(key, self.auth_nonce, self.encrypted_secret, additional_data)
    IN  IF plaintext_secret.ok
        THEN unpad_secret(plaintext_secret.val)
        ELSE Err(from_error(plaintext_secret.err))

---------------------------------------------------------------------------
(* The inputs the calls are given. *)

\* Plaintext lengths: around every block boundary up to MaxBlocks blocks.
Lengths == {n \in {k * PADDING_BLOCK_SIZE + d : k \in 0..MaxBlocks, d \in {-1, 0, 1}} : n >= 0}

\* Plaintexts of length n: plain bytes, and plain bytes that end like padding
\* (in 0x80, in 0x00, in 0x80 0x00).
PlaintextsOfLen(n) ==
    {[i \in 1..n |-> 65]}
    \cup (IF n >= 1 THEN {[i \in 1..n |-> IF i = n THEN 128 ELSE 65],
                           [i \in 1..n |-> IF i = n THEN 0 ELSE 65]}
                    ELSE {})
    \cup (IF n >= 2 THEN {[i \in 1..n |-> IF i = n - 1 THEN 128
                                          ELSE IF i = n THEN 0 ELSE 65]}
                    ELSE {})

Plaintexts == UNION {PlaintextsOfLen(n) : n \in Lengths}

\* Labels and accounts, some of them holding quotes, commas and colons.
Labels ==
    {<<"z">>,
     <<"\"", ",", "\"", "l", "a", "b", "e", "l", "\"", ":", "\"", "z">>}

Accounts ==
    {None,
     Some(<<"x">>),
     Some(<<"x", "\"", ",", "\"", "l", "a", "b", "e", "l", "\"", ":", "\"">>)}

\* Timestamps: a whole second, the same instant one day earlier, and the
\* same second with a fraction.
Timestamps ==
    {[year |-> 2024, month |-> 1, day |-> 1, hour |-> 0, min |-> 0, sec |-> 0, nano |-> 0],
     [year |-> 2023, month |-> 12, day |-> 31, hour |-> 0, min |-> 0, sec |-> 0, nano |-> 0],
     [year |-> 2024, month |-> 1, day |-> 1, hour |-> 0, min |-> 0, sec |-> 0,
      nano |-> 500000000]}

Passwords == {<<112>>, <<113>>}

EncryptionInputs ==
    [plaintext_secret : Plaintexts, label : Labels, account : Accounts,
     last_modified_at : Timestamps]

\* The threads that may open the screen, and a thread that has not called
\* open: it is in no call and holds no guard.
Threads == {1, 2}
new_thread ==
    [pc |-> "idle", prev |-> FALSE, result |-> Err("ScreenAlreadyOpen"), after |-> "idle",
     opens |-> 0, spurious |-> 0, at_call |-> <<>>]

\* The processes that share one store.  Process 1 runs this build; process 2
\* runs a build whose SCHEMA_VERSION is one higher.
Procs == {1, 2}
BuildVersion == <<SCHEMA_VERSION, SCHEMA_VERSION + 1>>

---------------------------------------------------------------------------
(* The pipeline: one encryption, the stored fields possibly altered, one   *)
(* decryption.                                                             *)

CryptoInit ==
    /\ rng = 0
    /\ encCalls = <<>>
    /\ din = <<>>
    /\ decRes = <<>>

DbInit ==
    /\ dbMeta = <<>>
    /\ dbItems = <<>>
    /\ dbHandle = [p \in Procs |-> <<>>]
    /\ dbLast = <<>>
    /\ dbTables = {}

\* No pipeline call is in progress, no process has begun to open the store,
\* nobody holds the write lock.
CallInit == frame = <<>>

ConcInit ==
    /\ conn = [p \in Procs |-> [pc |-> "closed", opens |-> 0, inserts |-> 0, version |-> 0]]
    /\ dbLock = 0
    /\ opLog = <<>>
    /\ dbCalls = [p \in Procs |-> <<>>]

\* The program has not built its State, nothing has been copied, no event
\* has been handled.
TuiInit ==
    /\ ui = <<>>
    /\ clipboard = None
    /\ uiLast = <<>>

\* screen.rs:18: no guard is live; the terminal is in its normal mode on the
\* main screen; no thread is inside open or drop.
ScreenInit ==
    /\ IS_OPEN = FALSE
    /\ terminal = [raw |-> FALSE, alternate |-> FALSE]
    /\ thread = [t \in Threads |-> new_thread]

Init == CryptoInit /\ DbInit /\ CallInit /\ ConcInit /\ TuiInit /\ ScreenInit

\* A caller encrypts one of the inputs; at most limit calls are made.
Encrypt(inputs, limit) ==
    \E input \in inputs, password \in Passwords :
        LET call == encrypt_and_authenticate(input, password, rng)
        IN  /\ Len(encCalls) < limit
            /\ encCalls' = Append(encCalls,
                   [input |-> input, password |-> password, result |-> call.result])
            /\ rng' = call.rng
            /\ UNCHANGED <<tuiVars, screenVars, din, decRes, dbVars, callVars, concVars>>

\* The DecryptionInput a caller builds from the output of call i and the
\* metadata the secret was encrypted with (crypto.rs:200-207, tui.rs:460-467).
decryption_input_of(call) ==
    [encrypted_secret |-> call.result.val.encrypted_secret,
     kdf_salt |-> call.result.val.kdf_salt,
     auth_nonce |-> call.result.val.auth_nonce,
     label |-> call.input.label,
     account |-> call.input.account,
     last_modified_at |-> call.input.last_modified_at]

BuildDecryptionInput ==
    \E i \in 1..Len(encCalls) :
        /\ din = <<>>
        /\ encCalls[i].result.ok
        /\ din' = <<[src |-> i, altered |-> 0,
                      input |-> decryption_input_of(encCalls[i])]>>
        /\ UNCHANGED <<tuiVars, screenVars, rng, encCalls, decRes, dbVars, callVars, concVars>>

\* Someone alters a stored field before the decryption; altered counts the
\* alterations made.
CanAlter == din # <<>> /\ decRes = <<>> /\ din[1].altered < MaxAlter

AlterLabel ==
    \E l \in Labels :
        /\ CanAlter
        /\ l # din[1].input.label
        /\ din' = <<[din[1] EXCEPT !.input.label = l, !.altered = @ + 1]>>
        /\ UNCHANGED <<tuiVars, screenVars, rng, encCalls, decRes, dbVars, callVars, concVars>>

AlterAccount ==
    \E a \in Accounts :
        /\ CanAlter
        /\ a # din[1].input.account
        /\ din' = <<[din[1] EXCEPT !.input.account = a, !.altered = @ + 1]>>
        /\ UNCHANGED <<tuiVars, screenVars, rng, encCalls, decRes, dbVars, callVars, concVars>>

AlterTimestamp ==
    \E t \in Timestamps :
        /\ CanAlter
        /\ t # din[1].input.last_modified_at
        /\ din' = <<[din[1] EXCEPT !.input.last_modified_at = t, !.altered = @ + 1]>>
        /\ UNCHANGED <<tuiVars, screenVars, rng, encCalls, decRes, dbVars, callVars, concVars>>

\* Positions of an encrypted_secret that get altered: the first byte, the
\* byte that holds the padding marker, the last byte of the body, the first
\* and the last byte of the tag.
AlteredPositions(ct, n) ==
    {1, n + 1, Len(ct.msg), Len(ct.msg) + 1, secret_len(ct)}

\* One byte of the encrypted_secret is changed by d (mod 256); a byte changed
\* back to its sealed value is no longer recorded.
alter_byte(ct, pos, d) ==
    LET old == IF pos \in DOMAIN ct.delta THEN ct.delta[pos] ELSE 0
        new == (old + d) % 256
        kept == (DOMAIN ct.delta \ {pos}) \cup (IF new = 0 THEN {} ELSE {pos})
    IN  [ct EXCEPT !.delta = [i \in kept |-> IF i = pos THEN new ELSE ct.delta[i]]]

AlterCiphertext ==
    /\ CanAlter
    /\ LET ct == din[1].input.encrypted_secret
           n == Len(encCalls[din[1].src].input.plaintext_secret)
       IN  \E pos \in AlteredPositions(ct, n), d \in {1, 128} :
                din' = <<[din[1] EXCEPT
                            !.input.encrypted_secret = alter_byte(ct, pos, d),
                            !.altered = @ + 1]>>
    /\ UNCHANGED <<tuiVars, screenVars, rng, encCalls, decRes, dbVars, callVars, concVars>>

Decrypt ==
    \E password \in Passwords :
        /\ din # <<>> /\ decRes = <<>>
        /\ decRes' = <<[password |-> password,
                        result |-> decrypt_and_verify(din[1].input, password)]>>
        /\ UNCHANGED <<tuiVars, screenVars, rng, encCalls, din, dbVars, callVars, concVars>>

PipelineNext ==
    \/ Encrypt(EncryptionInputs, 1)
    \/ BuildDecryptionInput
    \/ AlterLabel
    \/ AlterAccount
    \/ AlterTimestamp
    \/ AlterCiphertext
    \/ Decrypt

PipelineSpec == Init /\ [][PipelineNext]_vars

---------------------------------------------------------------------------
(* Properties of the pipeline. *)

\* A decryption has been made; of what, from which call, and its outcome.
Decrypted == din # <<>> /\ decRes # <<>>
Source == encCalls[din[1].src]
Given == din[1].input
Outcome == decRes[1].result
AuthenticationError == Err("XChaCha20Poly1305")

SamePassword == decRes[1].password = Source.password
SameMetadata ==
    /\ Given.label = Source.input.label
    /\ Given.account = Source.input.account
    /\ Given.last_modified_at = Source.input.last_modified_at
SameCiphertext ==
    /\ Given.encrypted_secret = Source.result.val.encrypted_secret
    /\ Given.kdf_salt = Source.result.val.kdf_salt
    /\ Given.auth_nonce = Source.result.val.auth_nonce

\* C1: round trip.  Every encryption succeeds, and decrypting its output
\* under the same password with the same label, account and timestamp
\* returns exactly the plaintext that was encrypted.
C1_RoundTrip ==
    /\ \A i \in 1..Len(encCalls) : encCalls[i].result.ok
    /\ (Decrypted /\ SamePassword /\ SameMetadata /\ SameCiphertext)
            => Outcome = Ok(Source.input.plaintext_secret)

\* A plaintext of exactly one block that ends in 0x00 has made the round trip.
C1_Witness ==
    /\ Decrypted /\ SamePassword /\ SameMetadata /\ SameCiphertext
    /\ Outcome.ok
    /\ Len(Source.input.plaintext_secret) = PADDING_BLOCK_SIZE
    /\ Source.input.plaintext_secret[PADDING_BLOCK_SIZE] = 0

\* C2: wrong password.  Decrypting an unaltered output with a password other
\* than the one it was encrypted with returns the authentication error.
C2_WrongPassword ==
    (Decrypted /\ ~SamePassword /\ SameMetadata /\ SameCiphertext)
        => Outcome = AuthenticationError

\* The empty payload has been decrypted with the wrong password.
C2_Witness ==
    /\ Decrypted /\ ~SamePassword /\ SameMetadata /\ SameCiphertext
    /\ Source.input.plaintext_secret = <<>>
    /\ ~Outcome.ok

\* C3: altered metadata.  If the label, the account or the timestamp given
\* to the decryption differs from the one bound at encryption, decryption
\* with the right password returns the authentication error.
C3_AlteredMetadata ==
    (Decrypted /\ SamePassword /\ ~SameMetadata) => Outcome = AuthenticationError

\* An account Some(..) was replaced by None and the empty payload decrypted
\* with the right password.
C3_Witness ==
    /\ Decrypted /\ SamePassword /\ SameCiphertext
    /\ Source.input.account.some /\ ~Given.account.some
    /\ Given.label = Source.input.label
    /\ Given.last_modified_at = Source.input.last_modified_at
    /\ Source.input.plaintext_secret = <<>>
    /\ ~Outcome.ok

\* C4: altered ciphertext.  With one byte of the encrypted_secret changed
\* (body or tag), decryption with the right password and unchanged metadata
\* returns the authentication error and no plaintext.
C4_AlteredCiphertext ==
    (/\ Decrypted /\ SamePassword /\ SameMetadata
     /\ Cardinality(changed(Given.encrypted_secret)) = 1)
        => (~Outcome.ok /\ Outcome = AuthenticationError)

\* The last byte of the tag was changed and the secret decrypted with the
\* right password.
C4_Witness ==
    /\ Decrypted /\ SamePassword /\ SameMetadata
    /\ changed(Given.encrypted_secret) = {secret_len(Given.encrypted_secret)}
    /\ ~Outcome.ok

\* C5: one undifferentiated failure.  Whatever the cause (wrong password,
\* altered label, account or timestamp, altered ciphertext bytes, or several
\* of them), the outcome is the one authentication error value, never the
\* padding error or any other one.
C5_SingleFailure ==
    (Decrypted /\ (~SamePassword \/ ~SameMetadata
                    \/ changed(Given.encrypted_secret) # {}))
        => (Outcome = AuthenticationError /\ Outcome.err \notin {"Unpad", "Argon2"})

\* A decryption failed with the wrong password on a ciphertext whose padding
\* marker byte had been changed as well.
C5_Witness ==
    /\ Decrypted /\ ~SamePassword /\ SameMetadata
    /\ changed(Given.encrypted_secret) = {Len(Source.input.plaintext_secret) + 1}
    /\ ~Outcome.ok

\* C10: length law.  Every encryption of an n-byte plaintext succeeds with a
\* padded body that is the least multiple of 256 strictly greater than n,
\* (n div 256 + 1) * 256, and an encrypted_secret 16 bytes longer.
C10_LengthLaw ==
    \A i \in 1..Len(encCalls) :
        LET n == Len(encCalls[i].input.plaintext_secret)
            r == encCalls[i].result
        IN  /\ r.ok
            /\ LET m == Len(r.val.encrypted_secret.msg)
               IN  /\ m = ((n \div 256) + 1) * 256
                   /\ m > n /\ m % 256 = 0 /\ m - 256 <= n
                   /\ secret_len(r.val.encrypted_secret) = m + 16

\* A plaintext of exactly 256 bytes was encrypted into 512 + 16 bytes, and
\* the empty one into 256 + 16.
C10_Witness ==
    \E i \in 1..Len(encCalls) :
        /\ encCalls[i].result.ok
        /\ Len(encCalls[i].input.plaintext_secret) = 256
        /\ secret_len(encCalls[i].result.val.encrypted_secret) = 528

---------------------------------------------------------------------------
(* The two calls step by step, with the buffers they own.  A buffer is its  *)
(* content, whether it is wrapped in Zeroizing, and whether it has been     *)
(* dropped; the content of a dropped buffer is what is left in the memory  *)
(* it occupied.                                                            *)

\* The content of the key buffer before the hash is written into it
\* (crypto.rs:94, 146: [0_u8; KeySize]), and after it is wiped.
ZeroKey == [password |-> <<>>, salt |-> 0]

\* A byte buffer of the same length, all zero.
zeroed(bytes) == [i \in 1..Len(bytes) |-> 0]

\* Faulty variant: the buffer is not wrapped; dropping it leaves its content behind.
NotZeroizing(content) == [content |-> content, zeroizing |-> FALSE, dropped |-> FALSE]

\* crypto.rs:72, 94, 146, 158: Zeroizing::new(..).
Zeroizing(content) == [content |-> content, zeroizing |-> TRUE, dropped |-> FALSE]

\* A local goes out of scope: a Zeroizing buffer is overwritten with zeros
\* and freed, any other buffer is just freed.
drop_key(buffers) ==
    [i \in 1..Len(buffers) |->
        [buffers[i] EXCEPT !.dropped = TRUE,
                           !.content = IF buffers[i].zeroizing THEN ZeroKey ELSE @]]
drop_bytes(buffers) ==
    [i \in 1..Len(buffers) |->
        [buffers[i] EXCEPT !.dropped = TRUE,
                           !.content = IF buffers[i].zeroizing THEN zeroed(@) ELSE @]]

\* crypto.rs:95, 147: hash_password_into with its error: Argon2 refuses a
\* password of more than 2^32 - 1 bytes.  A password is its bytes, or is
\* marked as longer than that (its bytes are then not written out).
hash_password_checked(password, salt) ==
    IF password.over_long
    THEN Err("argon2::Error")
    ELSE Ok(hash_password_into(password.bytes, salt))

\* crypto.rs:98, 150: new_from_slice fails unless the key has KeySize bytes;
\* the key buffer always has.
new_from_slice(key_len) ==
    IF key_len = 32 THEN Ok("XChaCha20Poly1305") ELSE Err("InvalidLength")

\* crypto.rs:161-162: Vec::truncate on the Zeroizing buffer: the content up
\* to the new length stays, the rest is spare capacity of the same buffer.
truncate(buffer, len) ==
    [content |-> SubSeq(buffer.content, 1, len),
     spare |-> SubSeq(buffer.content, len + 1, Len(buffer.content)),
     zeroizing |-> buffer.zeroizing,
     dropped |-> buffer.dropped]

\* The passwords of the step-by-step calls: two ordinary ones and one that
\* Argon2 refuses.
CallPasswords ==
    {[bytes |-> <<112>>, over_long |-> FALSE],
     [bytes |-> <<113>>, over_long |-> FALSE],
     [bytes |-> <<>>, over_long |-> TRUE]}

CallInputs ==
    [plaintext_secret : {<<>>, <<65>>, <<65, 128>>, [i \in 1..PADDING_BLOCK_SIZE |-> 65]},
     label : {<<"z">>},
     account : {None, Some(<<"x">>)},
     last_modified_at : {[year |-> 2024, month |-> 1, day |-> 1, hour |-> 0,
                          min |-> 0, sec |-> 0, nano |-> 0]}]

\* Messages sealed by something other than encrypt_and_authenticate, under
\* an ordinary password: nothing at all, zeros only, bytes with no marker
\* after them, a marker followed by another byte, and a well-padded byte.
ForeignMessages ==
    {<<>>,
     <<0, 0, 0>>,
     <<65, 66>>,
     <<65, 128, 1, 0>>,
     <<65, 128, 0, 0>>}

ForeignInput(msg) ==
    [encrypted_secret |->
        aead_encrypt(hash_password_into(<<112>>, 0), 0, msg,
                     additional_data_str(None, <<"z">>,
                        [year |-> 2024, month |-> 1, day |-> 1, hour |-> 0,
                         min |-> 0, sec |-> 0, nano |-> 0])),
     kdf_salt |-> 0,
     auth_nonce |-> 0,
     label |-> <<"z">>,
     account |-> None,
     last_modified_at |-> [year |-> 2024, month |-> 1, day |-> 1, hour |-> 0,
                           min |-> 0, sec |-> 0, nano |-> 0]]
ForeignInputs == {ForeignInput(msg) : msg \in ForeignMessages}

\* The frame of a call that begins: no buffer allocated, no result.
new_frame(fn, pc, self, password) ==
    [fn |-> fn, pc |-> pc, self |-> self, password |-> password,
     key |-> <<>>, padded |-> <<>>, aad |-> <<>>, kdf_salt |-> 0, auth_nonce |-> 0,
     cipher |-> FALSE, result |-> <<>>, trace |-> <<>>]

Idle == IF frame = <<>> THEN TRUE ELSE frame[1].pc = "returned"
Running(pc) == IF frame = <<>> THEN FALSE ELSE frame[1].pc = pc
Step(name, changes) == frame' = <<[changes EXCEPT !.trace = Append(@, name)]>>

\* crypto.rs:63: a caller encrypts.
CallEncrypt ==
    /\ Idle
    /\ rng < 2 * MaxCalls
    /\ \E self \in CallInputs, password \in CallPasswords :
            frame' = <<new_frame("encrypt", "pad", self, password)>>
    /\ UNCHANGED <<tuiVars, screenVars, cryptoVars, dbVars, concVars>>

\* crypto.rs:130: a caller decrypts what the encryption that just returned
\* has produced, with any of the passwords.
CallDecrypt ==
    /\ Running("returned")
    /\ frame[1].fn = "encrypt"
    /\ frame[1].result[1].ok
    /\ \E password \in CallPasswords :
            frame' = <<new_frame("decrypt", "aad",
                                 [encrypted_secret |-> frame[1].result[1].val.encrypted_secret,
                                  kdf_salt |-> frame[1].result[1].val.kdf_salt,
                                  auth_nonce |-> frame[1].result[1].val.auth_nonce,
                                  label |-> frame[1].self.label,
                                  account |-> frame[1].self.account,
                                  last_modified_at |-> frame[1].self.last_modified_at],
                                 password)>>
    /\ UNCHANGED <<tuiVars, screenVars, cryptoVars, dbVars, concVars>>

\* crypto.rs:130: a caller decrypts an item that was sealed elsewhere.
CallDecryptForeign ==
    /\ Idle
    /\ \E self \in ForeignInputs, password \in CallPasswords :
            frame' = <<new_frame("decrypt", "aad", self, password)>>
    /\ UNCHANGED <<tuiVars, screenVars, cryptoVars, dbVars, concVars>>

\* crypto.rs:70-75
StepPad ==
    /\ Running("pad")
    /\ Step("pad", [frame[1] EXCEPT
                !.padded = <<Zeroizing(pad_secret(frame[1].self.plaintext_secret).val)>>,
                !.pc = "aad"])
    /\ UNCHANGED <<tuiVars, screenVars, cryptoVars, dbVars, concVars>>

\* crypto.rs:78-83, 134-139
StepAdditionalData ==
    /\ Running("aad")
    /\ Step("aad", [frame[1] EXCEPT
                !.aad = additional_data_str(frame[1].self.account, frame[1].self.label,
                                            frame[1].self.last_modified_at),
                !.pc = IF frame[1].fn = "encrypt" THEN "random" ELSE "kdf"])
    /\ UNCHANGED <<tuiVars, screenVars, cryptoVars, dbVars, concVars>>

\* crypto.rs:86-87
StepRandom ==
    LET rnd == random_salt_and_nonce(rng)
    IN  /\ Running("random")
        /\ Step("random", [frame[1] EXCEPT !.kdf_salt = rnd.kdf_salt,
                                            !.auth_nonce = rnd.auth_nonce,
                                            !.pc = "kdf"])
        /\ rng' = rnd.next
        /\ UNCHANGED <<tuiVars, screenVars, encCalls, din, decRes, dbVars, concVars>>

\* crypto.rs:91-95, 143-147: the key buffer is made, then written by the
\* hash; on an error the ? operator returns it.
StepKdf ==
    LET salt == IF frame[1].fn = "encrypt" THEN frame[1].kdf_salt
                ELSE frame[1].self.kdf_salt
        hashed == hash_password_checked(frame[1].password, salt)
    IN  /\ Running("kdf")
        /\ Step("kdf",
                IF hashed.ok
                THEN [frame[1] EXCEPT !.key = <<Zeroizing(hashed.val)>>, !.pc = "cipher"]
                ELSE [frame[1] EXCEPT !.key = <<Zeroizing(ZeroKey)>>,
                                      !.result = <<Err(from_error(hashed.err))>>,
                                      !.pc = "return"])
        /\ UNCHANGED <<tuiVars, screenVars, cryptoVars, dbVars, concVars>>

\* crypto.rs:98, 150
StepCipher ==
    LET made == new_from_slice(32)
    IN  /\ Running("cipher")
        /\ Step("cipher",
                IF made.ok
                THEN [frame[1] EXCEPT !.cipher = TRUE, !.pc = "aead"]
                ELSE [frame[1] EXCEPT !.result = <<Err(from_error(made.err))>>,
                                      !.pc = "return"])
        /\ UNCHANGED <<tuiVars, screenVars, cryptoVars, dbVars, concVars>>

\* crypto.rs:101-111
StepAeadEncrypt ==
    /\ Running("aead")
    /\ frame[1].fn = "encrypt"
    /\ Step("encrypt", [frame[1] EXCEPT
                !.result = <<Ok([encrypted_secret |->
                                    aead_encrypt(frame[1].key[1].content,
                                                 frame[1].auth_nonce,
                                                 frame[1].padded[1].content,
                                                 frame[1].aad),
                                 kdf_salt |-> frame[1].kdf_salt,
                                 auth_nonce |-> frame[1].auth_nonce])>>,
                !.pc = "return"])
    /\ UNCHANGED <<tuiVars, screenVars, cryptoVars, dbVars, concVars>>

\* crypto.rs:153-158: decrypt, and on success wrap the plaintext.
StepAeadDecrypt ==
    LET plaintext_secret ==
            aead_decrypt(frame[1].key[1].content, frame[1].self.auth_nonce,
                         frame[1].self.encrypted_secret, frame[1].aad)
    IN  /\ Running("aead")
        /\ frame[1].fn = "decrypt"
        /\ Step("decrypt",
                IF plaintext_secret.ok
                THEN [frame[1] EXCEPT !.padded = <<Zeroizing(plaintext_secret.val)>>,
                                      !.pc = "unpad"]
                ELSE [frame[1] EXCEPT !.result = <<Err(from_error(plaintext_secret.err))>>,
                                      !.pc = "return"])
        /\ UNCHANGED <<tuiVars, screenVars, cryptoVars, dbVars, concVars>>

\* crypto.rs:161-164: on success the buffer is truncated and moved into the
\* result; on an error it stays a local.
StepUnpad ==
    LET unpadded == raw_unpad(frame[1].padded[1].content)
    IN  /\ Running("unpad")
        /\ Step("unpad",
                IF unpadded.ok
                THEN [frame[1] EXCEPT
                        !.result = <<Ok(truncate(frame[1].padded[1], Len(unpadded.val)))>>,
                        !.padded = <<>>,
                        !.pc = "return"]
                ELSE [frame[1] EXCEPT !.result = <<Err(from_error(unpadded.err))>>,
                                      !.pc = "return"])
        /\ UNCHANGED <<tuiVars, screenVars, cryptoVars, dbVars, concVars>>

\* The function returns: its locals are dropped.
StepReturn ==
    /\ Running("return")
    /\ Step("return", [frame[1] EXCEPT !.key = drop_key(@),
                                        !.padded = drop_bytes(@),
                                        !.cipher = FALSE,
                                        !.pc = "returned"])
    /\ UNCHANGED <<tuiVars, screenVars, cryptoVars, dbVars, concVars>>

CallNext ==
    \/ CallEncrypt
    \/ CallDecrypt
    \/ CallDecryptForeign
    \/ StepPad
    \/ StepAdditionalData
    \/ StepRandom
    \/ StepKdf
    \/ StepCipher
    \/ StepAeadEncrypt
    \/ StepAeadDecrypt
    \/ StepUnpad
    \/ StepReturn

CallSpec == Init /\ [][CallNext]_vars

---------------------------------------------------------------------------
(* Properties of the calls, step by step. *)

InCall(fn) == IF frame = <<>> THEN FALSE ELSE frame[1].fn = fn
Finished == IF frame = <<>> THEN FALSE ELSE frame[1].result # <<>>
CallResult == frame[1].result[1]
Sealed == frame[1].self.encrypted_secret

\* C11: wipe on every exit path.  When either call has returned, with a
\* result or with any error, the key buffer and the padded buffer it
\* allocated have been dropped and hold zeros only.  A successful
\* encryption had both.  A successful decryption has handed the verified
\* buffer out as its result: a Zeroizing buffer whose content is the
\* unpadded secret, the padding lying in its spare capacity.
C11_WipeOnExit ==
    Running("returned") =>
        /\ Finished
        /\ \A i \in 1..Len(frame[1].key) :
                frame[1].key[i].dropped /\ frame[1].key[i].content = ZeroKey
        /\ \A i \in 1..Len(frame[1].padded) :
                /\ frame[1].padded[i].dropped
                /\ \A j \in 1..Len(frame[1].padded[i].content) :
                        frame[1].padded[i].content[j] = 0
        /\ (InCall("encrypt") /\ CallResult.ok) =>
                (Len(frame[1].key) = 1 /\ Len(frame[1].padded) = 1)
        /\ (InCall("decrypt") /\ ~CallResult.ok /\ CallResult.err = "Unpad") =>
                (Len(frame[1].key) = 1 /\ Len(frame[1].padded) = 1)
        /\ (InCall("decrypt") /\ CallResult.ok) =>
                /\ CallResult.val.zeroizing /\ ~CallResult.val.dropped
                /\ CallResult.val.content \o CallResult.val.spare = Sealed.msg
                /\ raw_unpad(Sealed.msg) = Ok(CallResult.val.content)
                /\ frame[1].padded = <<>>

\* A decryption has returned the padding error; its key buffer and the
\* buffer with the verified plaintext are dropped and zero.
C11_Witness ==
    /\ Running("returned")
    /\ InCall("decrypt")
    /\ ~CallResult.ok /\ CallResult.err = "Unpad"
    /\ Len(frame[1].key) = 1 /\ frame[1].key[1].content = ZeroKey
    /\ Len(frame[1].padded) = 1
    /\ frame[1].padded[1].dropped
    /\ frame[1].padded[1].content = <<0, 0, 0, 0>>

\* The sealed item is authentic for the call: the key derived from the
\* password and the salt given, the nonce given and the additional data of
\* the metadata given are the ones it was sealed under, and no byte of it
\* has been changed.
Authentic ==
    /\ ~frame[1].password.over_long
    /\ hash_password_into(frame[1].password.bytes, frame[1].self.kdf_salt) = Sealed.key
    /\ frame[1].self.auth_nonce = Sealed.nonce
    /\ additional_data_str(frame[1].self.account, frame[1].self.label,
                           frame[1].self.last_modified_at) = Sealed.aad
    /\ changed(Sealed) = {}

\* A message has a valid marker: a byte 0x80 with nothing but 0x00 after it.
HasMarker(msg) ==
    \E i \in 1..Len(msg) :
        msg[i] = 128 /\ \A j \in (i + 1)..Len(msg) : msg[j] = 0

Traced(name) == \E i \in 1..Len(frame[1].trace) : frame[1].trace[i] = name

\* C12: padding is checked only after authentication.  decrypt_and_verify
\* reaches the unpad step only for an authentic item, after the decrypt
\* step; it returns the padding error only for an authentic item whose
\* message has no valid marker, and for such an item it returns nothing
\* else (no plaintext, truncated or not); an item that is not authentic
\* gets the authentication error without the unpad step being reached.
C12_PaddingAfterAuthentication ==
    InCall("decrypt") =>
        /\ (Running("unpad") \/ Traced("unpad")) => (Authentic /\ Traced("decrypt"))
        /\ Finished =>
            /\ (~CallResult.ok /\ CallResult.err = "Unpad") =>
                    (Authentic /\ ~HasMarker(Sealed.msg) /\ Traced("unpad"))
            /\ (Authentic /\ ~HasMarker(Sealed.msg)) => CallResult = Err("Unpad")
            /\ (~Authentic /\ ~frame[1].password.over_long) =>
                    (CallResult = AuthenticationError /\ ~Traced("unpad"))
            /\ CallResult.ok => (Authentic /\ HasMarker(Sealed.msg))

\* An authentic item whose message has a marker followed by a byte that is
\* not zero has got the padding error.
C12_Witness ==
    /\ Running("returned")
    /\ InCall("decrypt")
    /\ Authentic
    /\ Sealed.msg = <<65, 128, 1, 0>>
    /\ CallResult = Err("Unpad")
    /\ Traced("unpad")

---------------------------------------------------------------------------
(* Freshness: several encryptions, of equal or different inputs. *)

FreshInputs ==
    [plaintext_secret : {<<>>, <<65>>}, label : Labels, account : {None, Some(<<"x">>)},
     last_modified_at : {[year |-> 2024, month |-> 1, day |-> 1, hour |-> 0,
                          min |-> 0, sec |-> 0, nano |-> 0]}]

FreshNext == Encrypt(FreshInputs, MaxCalls)

FreshSpec == Init /\ [][FreshNext]_vars

\* The values a stored kdf_salt or auth_nonce can be changed to: those the
\* generator draws for the first encryption, and others.
StoredValues == 0..3

\* Someone alters the stored salt, the stored nonce, before the decryption.
AlterSalt ==
    \E salt \in StoredValues :
        /\ CanAlter
        /\ salt # din[1].input.kdf_salt
        /\ din' = <<[din[1] EXCEPT !.input.kdf_salt = salt, !.altered = @ + 1]>>
        /\ UNCHANGED <<tuiVars, screenVars, rng, encCalls, decRes, dbVars, callVars, concVars>>

AlterNonce ==
    \E nonce \in StoredValues :
        /\ CanAlter
        /\ nonce # din[1].input.auth_nonce
        /\ din' = <<[din[1] EXCEPT !.input.auth_nonce = nonce, !.altered = @ + 1]>>
        /\ UNCHANGED <<tuiVars, screenVars, rng, encCalls, decRes, dbVars, callVars, concVars>>

\* One encryption, the stored salt or nonce possibly altered, one decryption.
TamperNext ==
    \/ Encrypt(FreshInputs, 1)
    \/ BuildDecryptionInput
    \/ AlterSalt
    \/ AlterNonce
    \/ Decrypt

TamperSpec == Init /\ [][TamperNext]_vars

\* C9: freshness.  Any two encryptions, also of the same plaintext, label,
\* account, timestamp and password, succeed with different salts, different
\* nonces and different encrypted secrets: the caller's input does not
\* determine the salt or the nonce.
C9_Freshness ==
    \A i, j \in 1..Len(encCalls) :
        i < j =>
            /\ encCalls[i].result.ok /\ encCalls[j].result.ok
            /\ encCalls[i].result.val.kdf_salt # encCalls[j].result.val.kdf_salt
            /\ encCalls[i].result.val.auth_nonce # encCalls[j].result.val.auth_nonce
            /\ encCalls[i].result.val.encrypted_secret
                    # encCalls[j].result.val.encrypted_secret

\* Two encryptions were made with the same input and the same password.
C9_Witness ==
    /\ Len(encCalls) >= 2
    /\ encCalls[1].input = encCalls[2].input
    /\ encCalls[1].password = encCalls[2].password
    /\ encCalls[1].result.ok /\ encCalls[2].result.ok

---------------------------------------------------------------------------
(* The password database, db.rs.  The item table is the sequence of its    *)
(* rows in rowid order; the metadata table holds at most the SchemaVersion *)
(* row.                                                                    *)

ConstraintViolation == Err("Db(ConstraintViolation)")
NotFound == Err("Db(QueryReturnedNoRows)")

\* db.rs:36-40: the error open returns, with the build's version and the
\* recorded one.
SchemaVersionMismatch(expected, actual) ==
    [ok |-> FALSE, val |-> [expected |-> expected, actual |-> actual],
     err |-> "SchemaVersionMismatch"]

\* db.rs:31-32: create_table is CREATE TABLE IF NOT EXISTS; a table that
\* exists is left as it is.
create_table(tables, name) == tables \cup {name}

\* Faulty variant: the version is written with INSERT OR REPLACE, so the build's
\* version replaces the recorded one.
schema_version_replacing(meta, build) ==
    [version |-> build, meta |-> <<build>>]

\* db.rs:50-70: one immediate transaction that inserts the build's version
\* unless a version is recorded (insert_or_ignore_one), then reads the
\* recorded version (select_by_key) and commits.
schema_version(meta, build) ==
    LET inserted == IF meta = <<>> THEN <<build>> ELSE meta
    IN  [version |-> inserted[1], meta |-> inserted]

\* Faulty variant: the comparison is the other way round, so a store recorded by an
\* older build is refused and one recorded by a newer build is opened.
open_refusing_older(store, build) ==
    LET tables == create_table(create_table(store.tables, "item"), "metadata")
        read == schema_version(store.meta, build)
    IN  [result |-> IF build > read.version
                    THEN SchemaVersionMismatch(build, read.version)
                    ELSE Ok([schema_version |-> read.version]),
         tables |-> tables,
         meta |-> read.meta]

\* db.rs:26-44: Database::open by a build whose SCHEMA_VERSION is build, on
\* a store with the given tables and metadata rows.  The two tables are
\* created unless they exist, the version is read or recorded, and only then
\* compared.  The result, and the tables and the metadata after the call.
open(store, build) ==
    LET tables == create_table(create_table(store.tables, "item"), "metadata")
        read == schema_version(store.meta, build)
    IN  [result |-> IF build < read.version
                    THEN SchemaVersionMismatch(build, read.version)
                    ELSE Ok([schema_version |-> read.version]),
         tables |-> tables,
         meta |-> read.meta]

\* Faulty variant: the uid of the last row is taken as it is.
next_uid_not_incremented(items) ==
    IF items = <<>> THEN 1 ELSE items[Len(items)].uid

\* INTEGER PRIMARY KEY given NULL: one more than the largest rowid in use.
next_uid(items) ==
    IF items = <<>> THEN 1 ELSE items[Len(items)].uid + 1

\* Faulty variant: only the label is declared UNIQUE.
violates_label_only(items, input) ==
    \E i \in 1..Len(items) : items[i].label = input.label

\* Faulty variant: kdf_salt and auth_nonce are declared UNIQUE, the label is not.
violates_salt_or_nonce(items, input) ==
    \E i \in 1..Len(items) :
        \/ items[i].kdf_salt = input.kdf_salt
        \/ items[i].auth_nonce = input.auth_nonce

\* Faulty variant: uniqueness is declared on the pair (kdf_salt, auth_nonce).
violates_pair(items, input) ==
    \E i \in 1..Len(items) :
        \/ items[i].label = input.label
        \/ (items[i].kdf_salt = input.kdf_salt /\ items[i].auth_nonce = input.auth_nonce)

\* Faulty variant: encrypted_secret is declared UNIQUE as well.
violates_unique_secret(items, input) ==
    \E i \in 1..Len(items) :
        \/ items[i].label = input.label
        \/ items[i].kdf_salt = input.kdf_salt
        \/ items[i].auth_nonce = input.auth_nonce
        \/ items[i].encrypted_secret = input.encrypted_secret

\* db.rs:103-132: the UNIQUE columns label, kdf_salt and auth_nonce (uid is
\* generated, so the primary key never collides).
violates_unique(items, input) ==
    \E i \in 1..Len(items) :
        \/ items[i].label = input.label
        \/ items[i].kdf_salt = input.kdf_salt
        \/ items[i].auth_nonce = input.auth_nonce

\* The value of a decimal digit, and of the digits at lo..hi of a text.
digit_value(c) == CHOOSE d \in 0..9 : DigitChars[d + 1] = c

RECURSIVE number(_, _, _)
number(text, lo, hi) ==
    IF lo > hi THEN 0
    ELSE 10 * number(text, lo, hi - 1) + digit_value(text[hi])

RECURSIVE pow10(_)
pow10(n) == IF n = 0 THEN 1 ELSE 10 * pow10(n - 1)

\* Faulty variant: the column keeps whole seconds only.
to_sql_datetime_seconds(t) ==
    digits(t.year, 4) \o <<"-">> \o digits(t.month, 2) \o <<"-">> \o digits(t.day, 2)
        \o <<" ">> \o digits(t.hour, 2) \o <<":">> \o digits(t.min, 2) \o <<":">>
        \o digits(t.sec, 2) \o <<"+", "0", "0", ":", "0", "0">>

\* db.rs:115, 142: a DateTime<Utc> column is stored as text, the date, a
\* space, the time with the fraction of a second in 0, 3, 6 or 9 digits, and
\* the offset +00:00.
to_sql_datetime(t) ==
    digits(t.year, 4) \o <<"-">> \o digits(t.month, 2) \o <<"-">> \o digits(t.day, 2)
        \o <<" ">> \o digits(t.hour, 2) \o <<":">> \o digits(t.min, 2) \o <<":">>
        \o digits(t.sec, 2) \o fraction(t.nano) \o <<"+", "0", "0", ":", "0", "0">>

\* db.rs:115, 155: the column read back: the fields at their places, the
\* fraction (if there is one) between the dot and the offset.
from_sql_datetime(text) ==
    LET frac_len == IF text[20] = "." THEN Len(text) - 26 ELSE 0
    IN  [year |-> number(text, 1, 4),
         month |-> number(text, 6, 7),
         day |-> number(text, 9, 10),
         hour |-> number(text, 12, 13),
         min |-> number(text, 15, 16),
         sec |-> number(text, 18, 19),
         nano |-> number(text, 21, 20 + frac_len) * pow10(9 - frac_len)]

\* db.rs:134-146: the row an AddItemInput becomes, under the given rowid.
to_row(uid, input) ==
    [uid |-> uid,
     label |-> input.label,
     account |-> input.account,
     last_modified_at |-> to_sql_datetime(input.last_modified_at),
     encrypted_secret |-> input.encrypted_secret,
     kdf_salt |-> input.kdf_salt,
     auth_nonce |-> input.auth_nonce]

\* db.rs:103-132: the Item a row is read as (#[derive(ResultRecord)]).
from_row(row) ==
    [row EXCEPT !.last_modified_at = from_sql_datetime(row.last_modified_at)]

\* db.rs:150-156: the DisplayItem a row is read as: uid, label, account and
\* last_modified_at, nothing else.
display_item(row) ==
    [uid |-> row.uid,
     label |-> row.label,
     account |-> row.account,
     last_modified_at |-> from_sql_datetime(row.last_modified_at)]

\* Faulty variant: the caller looks for a colliding row when the call begins, and
\* the row is written later without the table checking anything.
checked_at_call(at_call, at_write) == at_call

\* db.rs:90-92, 110-131: uniqueness is a constraint of the table (UNIQUE
\* columns), so the rows an insert is checked against are the rows in the
\* table when the row is written, not those there when add_item was called.
checked_rows(at_call, at_write) == at_write

\* Faulty variant: INSERT OR REPLACE: the rows the new one collides with are
\* deleted and the new one is stored.
RECURSIVE without_collisions(_, _)
without_collisions(items, input) ==
    IF items = <<>> THEN <<>>
    ELSE IF violates_unique(<<Head(items)>>, input)
    THEN without_collisions(Tail(items), input)
    ELSE <<Head(items)>> \o without_collisions(Tail(items), input)
insert_or_replace_one(checked, items, input) ==
    LET kept == without_collisions(items, input)
        row == to_row(next_uid(items), input)
    IN  [result |-> Ok(from_row(row)), items |-> Append(kept, row)]

\* db.rs:91: insert_one, one INSERT statement: checked against the rows
\* checked, it appends the row under a generated uid and returns it as it is
\* read back from the table, or fails on a constraint and inserts nothing.
insert_one(checked, items, input) ==
    IF violates_unique(checked, input)
    THEN [result |-> ConstraintViolation, items |-> items]
    ELSE LET row == to_row(next_uid(items), input)
         IN  [result |-> Ok(from_row(row)), items |-> Append(items, row)]

\* db.rs:90-92: add_item when nothing else happens during the call.
add_item(items, input) == insert_one(checked_rows(items, items), items, input)

\* db.rs:97-99: select_by_key.
item_by_id(items, id) ==
    IF \E i \in 1..Len(items) : items[i].uid = id
    THEN Ok(from_row(items[CHOOSE i \in 1..Len(items) : items[i].uid = id]))
    ELSE NotFound

\* SQLite's LIKE compares ASCII letters without regard to case.
AsciiUpper ==
    <<"A", "B", "C", "D", "E", "F", "G", "H", "I", "J", "K", "L", "M",
      "N", "O", "P", "Q", "R", "S", "T", "U", "V", "W", "X", "Y", "Z">>
AsciiLower ==
    <<"a", "b", "c", "d", "e", "f", "g", "h", "i", "j", "k", "l", "m",
      "n", "o", "p", "q", "r", "s", "t", "u", "v", "w", "x", "y", "z">>
fold_case(c) ==
    IF \E i \in 1..Len(AsciiUpper) : AsciiUpper[i] = c
    THEN AsciiLower[CHOOSE i \in 1..Len(AsciiUpper) : AsciiUpper[i] = c]
    ELSE c

\* Faulty variant: LIKE that tells capitals from small letters, as it would
\* under PRAGMA case_sensitive_like.
RECURSIVE like_case_sensitive(_, _)
like_case_sensitive(pattern, text) ==
    IF pattern = <<>> THEN text = <<>>
    ELSE IF Head(pattern) = "%"
    THEN \/ like_case_sensitive(Tail(pattern), text)
         \/ (text # <<>> /\ like_case_sensitive(pattern, Tail(text)))
    ELSE /\ text # <<>>
         /\ (Head(pattern) = "_" \/ Head(pattern) = Head(text))
         /\ like_case_sensitive(Tail(pattern), Tail(text))

\* text LIKE pattern: % stands for any run of characters (also none), _ for
\* exactly one character, any other character for itself.
RECURSIVE like(_, _)
like(pattern, text) ==
    IF pattern = <<>> THEN text = <<>>
    ELSE IF Head(pattern) = "%"
    THEN like(Tail(pattern), text) \/ (text # <<>> /\ like(pattern, Tail(text)))
    ELSE /\ text # <<>>
         /\ (Head(pattern) = "_" \/ fold_case(Head(pattern)) = fold_case(Head(text)))
         /\ like(Tail(pattern), Tail(text))

\* SQL's three truth values.  LIKE with a NULL operand is NULL; OR is true
\* when an operand is true, false when both are false, NULL otherwise.
sql_is_null(value) == IF value.some THEN "false" ELSE "true"
sql_like(value, pattern) ==
    IF ~value.some \/ ~pattern.some THEN "null"
    ELSE IF like(pattern.val, value.val) THEN "true" ELSE "false"
sql_or(a, b) ==
    IF a = "true" \/ b = "true" THEN "true"
    ELSE IF a = "false" /\ b = "false" THEN "false"
    ELSE "null"
sql_and(a, b) ==
    IF a = "false" \/ b = "false" THEN "false"
    ELSE IF a = "true" /\ b = "true" THEN "true"
    ELSE "null"

\* Faulty variant: a row must match on the label and on the account.
where_label_and_account(row, search_term) ==
    sql_or(sql_is_null(search_term),
           sql_and(sql_like(Some(row.label), search_term),
                   sql_like(row.account, search_term)))

\* db.rs:185  WHERE ?1 IS NULL OR "item"."label" LIKE ?1 OR "item"."account" LIKE ?1
where_clause(row, search_term) ==
    sql_or(sql_or(sql_is_null(search_term), sql_like(Some(row.label), search_term)),
           sql_like(row.account, search_term))

\* Faulty variant: ORDER BY "item"."uid" DESC.
RECURSIVE order_by_uid_desc(_)
order_by_uid_desc(rows) ==
    IF rows = {} THEN <<>>
    ELSE LET first == CHOOSE r \in rows : \A q \in rows : r.uid >= q.uid
         IN  <<first>> \o order_by_uid_desc(rows \ {first})

\* db.rs:186  ORDER BY "item"."uid"
RECURSIVE order_by_uid(_)
order_by_uid(rows) ==
    IF rows = {} THEN <<>>
    ELSE LET first == CHOOSE r \in rows : \A q \in rows : r.uid <= q.uid
         IN  <<first>> \o order_by_uid(rows \ {first})

\* db.rs:85-87, 174-189: the rows the WHERE clause is true of (not false, not
\* NULL), in the order of ORDER BY, each read as a DisplayItem.
list_items_for_display(items, search_term) ==
    LET selected == {items[i] : i \in {j \in 1..Len(items) :
                                        where_clause(items[j], search_term) = "true"}}
        ordered == order_by_uid(selected)
    IN  Ok([i \in 1..Len(ordered) |-> display_item(ordered[i])])

\* The inputs add_item is given: as in the tests, any label, salt and nonce,
\* whether in use or not, and an arbitrary encrypted_secret.  Labels with an
\* odd number come without an account, the others with one; the timestamps
\* are whole seconds, or have milliseconds, microseconds or nanoseconds.
DbLabel(k) == <<"l", DigitChars[k + 1]>>
DbAccount(k) == IF k % 2 = 1 THEN None ELSE Some(<<"x">>)
DbNanos == <<0, 500000000, 1000, 1>>
DbTimestamp(k) ==
    [year |-> 2024, month |-> 1, day |-> 1, hour |-> 23, min |-> 59, sec |-> 58 + (k % 2),
     nano |-> DbNanos[((k - 1) % 4) + 1]]
DbSalts == 1..MaxItems
DbNonces == 1..MaxItems
AddItemInputs ==
    {[label |-> DbLabel(k), account |-> DbAccount(k),
      last_modified_at |-> DbTimestamp(k),
      encrypted_secret |-> <<69, 110, 99>>,
      kdf_salt |-> s, auth_nonce |-> n] :
        k \in 1..MaxItems, s \in DbSalts, n \in DbNonces}

\* Process p opens the store.
Open(p) ==
    LET call == open([tables |-> dbTables, meta |-> dbMeta], BuildVersion[p])
    IN  /\ dbMeta' = call.meta
        /\ dbTables' = call.tables
        /\ dbHandle' = [dbHandle EXCEPT ![p] =
                            IF call.result.ok THEN <<call.result.val>> ELSE <<>>]
        /\ dbLast' = <<[op |-> "open", input |-> BuildVersion[p],
                        result |-> call.result, before |-> dbItems,
                        meta |-> dbMeta, tables |-> dbTables]>>
        /\ UNCHANGED <<tuiVars, screenVars, dbItems, cryptoVars, callVars, concVars>>

\* A process that holds a handle adds an item.  The table holds at most
\* MaxItems rows.
AddItem ==
    /\ \E p \in Procs : dbHandle[p] # <<>>
    /\ \E input \in AddItemInputs :
        \E call \in {add_item(dbItems, input)} :
            /\ Len(call.items) <= MaxItems
            /\ dbItems' = call.items
            /\ dbLast' = <<[op |-> "add_item", input |-> input,
                            result |-> call.result, before |-> dbItems,
                            meta |-> dbMeta, tables |-> dbTables]>>
            /\ UNCHANGED <<tuiVars, screenVars, dbMeta, dbHandle, dbTables, cryptoVars, callVars, concVars>>

\* The search terms a listing is asked with: none, and LIKE patterns that
\* match every text, one label, labels by their end, labels by their length
\* (in capitals), the account only, and nothing but the empty text.
SearchTerms ==
    {None,
     Some(<<"%">>),
     Some(DbLabel(1)),
     Some(<<"%", "2">>),
     Some(<<"L", "_">>),
     Some(<<"%", "X", "%">>),
     Some(<<>>)}

\* A process that holds a handle lists the items.
ListItems ==
    /\ \E p \in Procs : dbHandle[p] # <<>>
    /\ \E search_term \in SearchTerms :
        /\ dbLast' = <<[op |-> "list_items_for_display", input |-> search_term,
                        result |-> list_items_for_display(dbItems, search_term),
                        before |-> dbItems, meta |-> dbMeta, tables |-> dbTables]>>
        /\ UNCHANGED <<tuiVars, screenVars, dbMeta, dbItems, dbHandle, dbTables, cryptoVars, callVars, concVars>>

\* A process that holds a handle asks for the item with some uid, in use or not.
ItemById ==
    /\ \E p \in Procs : dbHandle[p] # <<>>
    /\ \E id \in 1..(MaxItems + 1) :
        /\ dbLast' = <<[op |-> "item_by_id", input |-> id,
                        result |-> item_by_id(dbItems, id),
                        before |-> dbItems, meta |-> dbMeta, tables |-> dbTables]>>
        /\ UNCHANGED <<tuiVars, screenVars, dbMeta, dbItems, dbHandle, dbTables, cryptoVars, callVars, concVars>>

DbNext ==
    \/ \E p \in Procs : Open(p)
    \/ AddItem
    \/ ListItems
    \/ ItemById

DbSpec == Init /\ [][DbNext]_vars

---------------------------------------------------------------------------
(* Database::open statement by statement, by processes that share the      *)
(* store: db.rs:30 connect, :31 and :32 create_table, :53 begin immediate, *)
(* :62 insert_or_ignore_one, :64 select_by_key, :67 commit, :36 compare.   *)

\* Faulty variant: the statements run outside a transaction, each on its own; no
\* lock is held from one to the next.
begin_nothing(lock, p) == [granted |-> TRUE, lock |-> lock]

\* db.rs:53: transaction_with_behavior(Immediate) takes the store's write
\* lock when the transaction begins; it is granted only while no other
\* connection holds it (the caller waits until then).
begin_immediate(lock, p) == [granted |-> lock = 0, lock |-> p]

\* db.rs:62: insert_or_ignore_one of the build's version: the metadata rows
\* after it, and whether a row was inserted.
insert_or_ignore_one(meta, build) ==
    IF meta = <<>>
    THEN [meta |-> <<build>>, inserted |-> TRUE]
    ELSE [meta |-> meta, inserted |-> FALSE]

At(p, pc) == conn[p].pc = pc
Goto(p, pc) == conn' = [conn EXCEPT ![p].pc = pc]

\* db.rs:30
Connect(p) ==
    /\ At(p, "closed")
    /\ conn[p].opens < MaxOpens
    /\ conn' = [conn EXCEPT ![p].pc = "connected", ![p].opens = @ + 1]
    /\ UNCHANGED <<tuiVars, screenVars, cryptoVars, dbVars, callVars, dbLock, opLog, dbCalls>>

\* db.rs:31; creating a missing table writes, and waits for the write lock.
CreateItemTable(p) ==
    /\ At(p, "connected")
    /\ "item" \in dbTables \/ dbLock = 0
    /\ dbTables' = create_table(dbTables, "item")
    /\ Goto(p, "item_table")
    /\ UNCHANGED <<tuiVars, screenVars, cryptoVars, dbMeta, dbItems, dbHandle, dbLast, callVars,
                   dbLock, opLog, dbCalls>>

\* db.rs:32
CreateMetadataTable(p) ==
    /\ At(p, "item_table")
    /\ "metadata" \in dbTables \/ dbLock = 0
    /\ dbTables' = create_table(dbTables, "metadata")
    /\ Goto(p, "metadata_table")
    /\ UNCHANGED <<tuiVars, screenVars, cryptoVars, dbMeta, dbItems, dbHandle, dbLast, callVars,
                   dbLock, opLog, dbCalls>>

\* db.rs:53
Begin(p) ==
    LET begun == begin_immediate(dbLock, p)
    IN  /\ At(p, "metadata_table")
        /\ begun.granted
        /\ dbLock' = begun.lock
        /\ Goto(p, "begun")
        /\ UNCHANGED <<tuiVars, screenVars, cryptoVars, dbVars, callVars, opLog, dbCalls>>

\* db.rs:54-62
InsertOrIgnore(p) ==
    LET done == insert_or_ignore_one(dbMeta, BuildVersion[p])
    IN  /\ At(p, "begun")
        /\ dbMeta' = done.meta
        /\ conn' = [conn EXCEPT ![p].pc = "inserted",
                                ![p].inserts = @ + (IF done.inserted THEN 1 ELSE 0)]
        /\ opLog' = Append(opLog, <<p, "insert_or_ignore_one">>)
        /\ UNCHANGED <<tuiVars, screenVars, cryptoVars, dbItems, dbHandle, dbLast, dbTables, callVars,
                       dbLock, dbCalls>>

\* db.rs:64-65
SelectByKey(p) ==
    /\ At(p, "inserted")
    /\ conn' = [conn EXCEPT ![p].pc = "selected", ![p].version = dbMeta[1]]
    /\ opLog' = Append(opLog, <<p, "select_by_key">>)
    /\ UNCHANGED <<tuiVars, screenVars, cryptoVars, dbVars, callVars, dbLock, dbCalls>>

\* db.rs:67; the lock is released if this process holds it.
Commit(p) ==
    /\ At(p, "selected")
    /\ dbLock' = IF dbLock = p THEN 0 ELSE dbLock
    /\ Goto(p, "committed")
    /\ UNCHANGED <<tuiVars, screenVars, cryptoVars, dbVars, callVars, opLog, dbCalls>>

\* db.rs:36-43
CompareVersion(p) ==
    /\ At(p, "committed")
    /\ IF BuildVersion[p] < conn[p].version
       THEN /\ Goto(p, "refused")
            /\ dbHandle' = [dbHandle EXCEPT ![p] = <<>>]
       ELSE /\ Goto(p, "open")
            /\ dbHandle' = [dbHandle EXCEPT ![p] = <<[schema_version |-> conn[p].version]>>]
    /\ UNCHANGED <<tuiVars, screenVars, cryptoVars, dbMeta, dbItems, dbLast, dbTables, callVars,
                   dbLock, opLog, dbCalls>>

\* The Database (or the error) is dropped; the process may open again.
Close(p) ==
    /\ conn[p].pc \in {"open", "refused"}
    /\ Goto(p, "closed")
    /\ dbHandle' = [dbHandle EXCEPT ![p] = <<>>]
    /\ UNCHANGED <<tuiVars, screenVars, cryptoVars, dbMeta, dbItems, dbLast, dbTables, callVars,
                   dbLock, opLog, dbCalls>>

OpenNext ==
    \E p \in Procs :
        \/ Connect(p)
        \/ CreateItemTable(p)
        \/ CreateMetadataTable(p)
        \/ Begin(p)
        \/ InsertOrIgnore(p)
        \/ SelectByKey(p)
        \/ Commit(p)
        \/ CompareVersion(p)
        \/ Close(p)

OpenSpec == Init /\ [][OpenNext]_vars

---------------------------------------------------------------------------
(* add_item by processes that share the store.  A call begins, and the      *)
(* INSERT statement executes at some later moment; in between, the other   *)
(* process may begin or complete calls of its own.                         *)

\* The inputs: two labels, two salts and two nonces in every combination.
SharedKeys == {1, 2}
SharedInputs ==
    {[label |-> DbLabel(k), account |-> DbAccount(k),
      last_modified_at |-> DbTimestamp(k),
      encrypted_secret |-> <<69, 110, 99>>,
      kdf_salt |-> s, auth_nonce |-> n] :
        k \in SharedKeys, s \in SharedKeys, n \in SharedKeys}

\* db.rs:90: process p, holding a handle, calls add_item; seen is the table
\* at that moment.
AddItemCall(p) ==
    /\ dbHandle[p] # <<>>
    /\ IF dbCalls[p] = <<>> THEN TRUE ELSE dbCalls[p][1].pc = "returned"
    /\ \E input \in SharedInputs :
            dbCalls' = [dbCalls EXCEPT ![p] =
                            <<[pc |-> "called", input |-> input, seen |-> dbItems,
                               result |-> Err("pending")]>>]
    /\ UNCHANGED <<tuiVars, screenVars, cryptoVars, dbVars, callVars, conn, dbLock, opLog>>

\* db.rs:91: the INSERT statement of p's call executes and the call returns.
AddItemInsert(p) ==
    /\ dbCalls[p] # <<>> /\ dbCalls[p][1].pc = "called"
    /\ LET input == dbCalls[p][1].input
           call == insert_one(checked_rows(dbCalls[p][1].seen, dbItems), dbItems, input)
       IN  /\ dbItems' = call.items
           /\ dbCalls' = [dbCalls EXCEPT ![p] =
                            <<[dbCalls[p][1] EXCEPT !.pc = "returned",
                                                    !.result = call.result]>>]
    /\ UNCHANGED <<tuiVars, screenVars, cryptoVars, dbMeta, dbHandle, dbLast, dbTables, callVars,
                   conn, dbLock, opLog>>

SharedNext ==
    \E p \in Procs :
        \/ Open(p)
        \/ AddItemCall(p)
        \/ AddItemInsert(p)

SharedSpec == Init /\ [][SharedNext]_vars

---------------------------------------------------------------------------
(* The user interface, src/src/tui.rs.  A text area holds lines, a line is *)
(* a sequence of characters; a character is named by a string.             *)

\* tui_textarea::TextArea::default(): one empty line.
TextArea_default == <<<<>>>>

\* char::is_whitespace, for the characters of the model.
is_whitespace(c) == c \in {" ", "\n"}

\* str::trim: the line without the white space at its ends.
RECURSIVE trim_start(_)
trim_start(line) ==
    IF line = <<>> THEN line
    ELSE IF is_whitespace(Head(line)) THEN trim_start(Tail(line)) ELSE line
RECURSIVE trim_end(_)
trim_end(line) ==
    IF line = <<>> THEN line
    ELSE IF is_whitespace(line[Len(line)])
    THEN trim_end(SubSeq(line, 1, Len(line) - 1))
    ELSE line
trim(line) == trim_end(trim_start(line))

\* [String]::join("\n").
RECURSIVE join(_)
join(lines) ==
    IF lines = <<>> THEN <<>>
    ELSE IF Len(lines) = 1 THEN lines[1]
    ELSE lines[1] \o <<"\n">> \o join(Tail(lines))

\* The UTF-8 encoding of a character: one byte for ASCII, two for a letter
\* with an accent.
Chars == {"a", "l", "p", "q", "s", "x", "y", " ", "\n", "1", "2", "3", "4", "e-acute"}
utf8(c) ==
    CASE c = "a" -> <<97>>
      [] c = "l" -> <<108>>
      [] c = "p" -> <<112>>
      [] c = "q" -> <<113>>
      [] c = "s" -> <<115>>
      [] c = "x" -> <<120>>
      [] c = "y" -> <<121>>
      [] c = " " -> <<32>>
      [] c = "\n" -> <<10>>
      [] c = "1" -> <<49>>
      [] c = "2" -> <<50>>
      [] c = "3" -> <<51>>
      [] c = "4" -> <<52>>
      [] c = "e-acute" -> <<195, 169>>

\* str::as_bytes: the encodings of the characters, one after the other.
RECURSIVE as_bytes(_)
as_bytes(text) ==
    IF text = <<>> THEN <<>> ELSE utf8(Head(text)) \o as_bytes(Tail(text))

\* std::str::from_utf8: the text the bytes encode, or the error when they
\* encode none.  A byte below 128 is a character by itself; of the longer
\* encodings the model knows the one of its accented letter.
RECURSIVE from_utf8(_)
from_utf8(bytes) ==
    IF bytes = <<>> THEN Ok(<<>>)
    ELSE LET width == IF bytes[1] < 128 THEN 1
                      ELSE IF Len(bytes) >= 2 /\ SubSeq(bytes, 1, 2) = utf8("e-acute") THEN 2
                      ELSE 0
             first == SubSeq(bytes, 1, width)
             rest == from_utf8(SubSeq(bytes, width + 1, Len(bytes)))
         IN  IF width = 0 THEN Err("Utf8")
             ELSE IF ~rest.ok THEN rest
             ELSE IF \E c \in Chars : utf8(c) = first
             THEN Ok(<<CHOOSE c \in Chars : utf8(c) = first>> \o rest.val)
             ELSE Ok(<<first[1]>> \o rest.val)

\* The bytes of the strings of a Vec<String>, one string after the other.
RECURSIVE bytes_of_lines(_)
bytes_of_lines(lines) ==
    IF lines = <<>> THEN <<>> ELSE as_bytes(Head(lines)) \o bytes_of_lines(Tail(lines))

\* A buffer and what it is called.  A plain String or Vec<String>, such as
\* the lines a TextArea owns, is freed as it is when dropped.
Owned(content) == [content |-> content, zeroizing |-> FALSE, dropped |-> FALSE]
named(name, buffer) ==
    [name |-> name, content |-> buffer.content,
     zeroizing |-> buffer.zeroizing, dropped |-> buffer.dropped]

\* tui.rs:736-739: the label must be one line that is not blank.
validate_label(lines) ==
    IF Len(lines) # 1 THEN Err("LabelRequired")
    ELSE IF trim(lines[1]) = <<>> THEN Err("LabelRequired")
    ELSE Ok(trim(lines[1]))

\* tui.rs:740-744: the account is no line or a blank line (None), one line
\* (trimmed), or an error.
validate_account(lines) ==
    IF Len(lines) = 0 THEN Ok(None)
    ELSE IF Len(lines) > 1 THEN Err("AccountNameSingleLine")
    ELSE IF trim(lines[1]) = <<>> THEN Ok(None)
    ELSE Ok(Some(trim(lines[1])))

\* tui.rs:749-753: the secret is the lines joined, unless there is no line
\* or one empty line.
validate_secret(lines) ==
    IF Len(lines) = 0 THEN Err("SecretRequired")
    ELSE IF Len(lines) = 1 /\ lines[1] = <<>> THEN Err("SecretRequired")
    ELSE Ok(join(lines))

\* tui.rs:757-760: the encryption password is the one line, not empty.
validate_enc_pass(lines) ==
    IF Len(lines) # 1 THEN Err("EncryptionPasswordRequired")
    ELSE IF lines[1] = <<>> THEN Err("EncryptionPasswordRequired")
    ELSE Ok(lines[1])

\* Faulty variant: the confirmation is not compared with the password.
validate_confirm_unchecked(enc_pass, lines) == Ok(join(lines))

\* tui.rs:762-767: the confirmation, its lines joined, must equal the
\* encryption password.
validate_confirm(enc_pass, lines) ==
    IF enc_pass # join(lines) THEN Err("ConfirmPasswordMismatch") ELSE Ok(join(lines))

\* tui.rs:777-785: the item is given to the store, and what the store
\* answers is what add_item returns.
added_to_store(r, buffers, insertion) ==
    [result |-> insertion.result, items |-> insertion.items, rng |-> r,
     calls |-> <<"encrypt_and_authenticate", "Database::add_item">>,
     buffers |-> buffers]

\* tui.rs:775-785: the error of the encryption is returned (the ? operator),
\* or its output is stored with the label, the account and the timestamp
\* that were encrypted.
add_encrypted(encryption_input, items, buffers, encryption) ==
    IF ~encryption.result.ok
    THEN [result |-> Err(from_error(encryption.result.err)), items |-> items,
          rng |-> encryption.rng, calls |-> <<"encrypt_and_authenticate">>,
          buffers |-> buffers]
    ELSE added_to_store(encryption.rng, buffers,
            add_item(items,
                     [label |-> encryption_input.label,
                      account |-> encryption_input.account,
                      last_modified_at |-> encryption_input.last_modified_at,
                      encrypted_secret |-> encryption.result.val.encrypted_secret,
                      kdf_salt |-> encryption.result.val.kdf_salt,
                      auth_nonce |-> encryption.result.val.auth_nonce]))

\* tui.rs:735-786  NewItemState::add_item(self, db), on the table items, at
\* the time now, with r values drawn from the CSPRNG so far.  The result,
\* the table and the generator after the call, the calls made to the crypto
\* engine and the store, and every buffer that held the text of the secret,
\* of the encryption password or of its confirmation, as it is left when
\* the call has returned and self and the locals have been dropped.
NewItemState_add_item(self, items, now, r) ==
    LET label == validate_label(self.label)
        account == validate_account(self.account)
        secret == validate_secret(self.secret)
        enc_pass == validate_enc_pass(self.enc_pass)
        confirm_pass == validate_confirm(enc_pass.val, self.confirm)
        \* the text areas of self that have not been moved out of
        self_secret == named("self.secret", Owned(bytes_of_lines(self.secret)))
        self_enc_pass == named("self.enc_pass", Owned(bytes_of_lines(self.enc_pass)))
        self_confirm == named("self.confirm", Owned(bytes_of_lines(self.confirm)))
        \* tui.rs:748, 752, 756, 758, 762, 763: the Zeroizing locals
        secret_lines == named("secret_lines", Zeroizing(bytes_of_lines(self.secret)))
        secret_buf == named("secret", Zeroizing(as_bytes(secret.val)))
        enc_pass_lines_whole ==
            named("enc_pass_lines", Zeroizing(bytes_of_lines(self.enc_pass)))
        enc_pass_lines_taken == named("enc_pass_lines", Zeroizing(<<>>))
        enc_pass_buf == named("enc_pass", Zeroizing(as_bytes(enc_pass.val)))
        confirm_pass_lines ==
            named("confirm_pass_lines", Zeroizing(bytes_of_lines(self.confirm)))
        confirm_pass_buf == named("confirm_pass", Zeroizing(as_bytes(join(self.confirm))))
        early(error, buffers) ==
            [result |-> error, items |-> items, rng |-> r, calls |-> <<>>,
             buffers |-> drop_bytes(buffers)]
        all_wrapped ==
            <<secret_lines, secret_buf, enc_pass_lines_taken, enc_pass_buf,
              confirm_pass_lines, confirm_pass_buf>>
        encryption_input ==
            [plaintext_secret |-> as_bytes(secret.val), label |-> label.val,
             account |-> account.val, last_modified_at |-> now]
    IN  IF ~label.ok THEN early(label, <<self_secret, self_enc_pass, self_confirm>>)
        ELSE IF ~account.ok THEN early(account, <<self_secret, self_enc_pass, self_confirm>>)
        ELSE IF ~secret.ok THEN early(secret, <<secret_lines, self_enc_pass, self_confirm>>)
        ELSE IF ~enc_pass.ok
        THEN early(enc_pass, <<secret_lines, secret_buf, enc_pass_lines_whole, self_confirm>>)
        ELSE IF ~confirm_pass.ok THEN early(confirm_pass, all_wrapped)
        ELSE add_encrypted(encryption_input, items, drop_bytes(all_wrapped),
                           encrypt_and_authenticate(encryption_input,
                                                    as_bytes(enc_pass.val), r))

\* ratatui's TableState: the selected row, counted from 0, if any.  The
\* greatest usize stands for "the last row" until the table is next drawn.
usize_MAX == 2147483647
select_first(selected) == Some(0)
select_last(selected) == Some(usize_MAX)
select_next(selected) ==
    IF ~selected.some THEN Some(0)
    ELSE IF selected.val = usize_MAX THEN selected
    ELSE Some(selected.val + 1)
select_previous(selected) ==
    IF ~selected.some THEN Some(usize_MAX)
    ELSE IF selected.val = 0 THEN selected
    ELSE Some(selected.val - 1)

\* Variant: rendering leaves the selection as it is.
draw_unclamped(state) == state

\* tui.rs:97: rendering the table brings the selection back into the rows
\* shown: none when there is no row, the last row when it is beyond it.
draw(state) ==
    [state EXCEPT !.selected =
        IF state.items = <<>> THEN None
        ELSE IF ~@.some THEN @
        ELSE IF @.val >= Len(state.items) THEN Some(Len(state.items) - 1)
        ELSE @]

\* tui.rs:46-65  State::new: the unfiltered listing, the first row selected
\* when there is one, no panel open.
State_new(items) ==
    LET listed == list_items_for_display(items, None).val
    IN  [is_running |-> TRUE,
         passwd_entry |-> FALSE,
         find |-> None,
         new_item |-> FALSE,
         popup_error |-> None,
         items |-> listed,
         selected |-> IF listed = <<>> THEN None ELSE Some(0)]

\* What a handler leaves behind: whether the event is consumed ("break") or
\* handed on ("continue"), the State, the item table, the generator, the
\* clipboard, the handler's Result, the calls it made and the buffers with
\* secret text it has dropped.
outcome(flow, state, items, r, clip, result, calls, buffers) ==
    [flow |-> flow, state |-> state, items |-> items, rng |-> r, clipboard |-> clip,
     result |-> result, calls |-> calls, buffers |-> buffers, given |-> <<>>]
untouched(flow, state, w) ==
    outcome(flow, state, w.items, w.rng, w.clipboard, Ok(<<>>), <<>>, <<>>)

\* arboard's Clipboard::set_text: the text is on the clipboard, unless the
\* system refuses.
set_text(clip, text, refused) ==
    IF refused THEN [result |-> Err("Clipboard"), clipboard |-> clip]
    ELSE [result |-> Ok(<<>>), clipboard |-> Some(text)]

\* Variant: the listing is reloaded without the search term.
sync_data_unfiltered(state, items, adjust_selection) ==
    LET listed == list_items_for_display(items, None).val
        in_range == IF state.selected.some THEN state.selected.val < Len(listed) ELSE FALSE
    IN  [state EXCEPT !.items = listed,
                      !.selected = IF adjust_selection /\ listed # <<>> /\ ~in_range
                                   THEN select_last(@) ELSE @]

\* tui.rs:429-451  sync_data.
search_term_of(find) ==
    IF ~find.some THEN None
    ELSE IF find.val.search_term = <<>> THEN None
    ELSE Some(<<"%">> \o trim(find.val.search_term[1]) \o <<"%">>)
sync_data(state, items, adjust_selection) ==
    LET listed == list_items_for_display(items, search_term_of(state.find)).val
        in_range == IF state.selected.some THEN state.selected.val < Len(listed) ELSE FALSE
    IN  [state EXCEPT !.items = listed,
                      !.selected = IF adjust_selection /\ listed # <<>> /\ ~in_range
                                   THEN select_last(@) ELSE @]

copy_done(result, clip, calls, given) ==
    [result |-> result, clipboard |-> clip, calls |-> calls, given |-> given]

\* Variant: what the decryption left in the buffer is put on the clipboard
\* before its Result is looked at.
copy_decrypted_unchecked(input, clip, refused, plaintext_secret) ==
    LET secret_str == from_utf8(plaintext_secret.val)
        copied == set_text(clip, secret_str.val, refused)
    IN  IF ~plaintext_secret.ok
        THEN copy_done(plaintext_secret, Some(<<>>),
                       <<"item_by_id", "decrypt_and_verify">>, <<input>>)
        ELSE IF ~secret_str.ok
        THEN copy_done(secret_str, clip, <<"item_by_id", "decrypt_and_verify">>, <<input>>)
        ELSE copy_done(copied.result, copied.clipboard,
                       <<"item_by_id", "decrypt_and_verify", "set_text">>, <<input>>)

\* tui.rs:467-474: the error of the decryption is returned, or the secret
\* is read as UTF-8 and put on the clipboard.
copy_decrypted(input, clip, refused, plaintext_secret) ==
    LET secret_str == from_utf8(plaintext_secret.val)
        copied == set_text(clip, secret_str.val, refused)
    IN  IF ~plaintext_secret.ok
        THEN copy_done(plaintext_secret, clip, <<"item_by_id", "decrypt_and_verify">>,
                       <<input>>)
        ELSE IF ~secret_str.ok
        THEN copy_done(secret_str, clip, <<"item_by_id", "decrypt_and_verify">>, <<input>>)
        ELSE copy_done(copied.result, copied.clipboard,
                       <<"item_by_id", "decrypt_and_verify", "set_text">>, <<input>>)

\* tui.rs:457-467: the error of item_by_id is returned, or the item's
\* fields are the input of the decryption.
copy_item(item, clip, enc_pass, refused) ==
    LET input == [encrypted_secret |-> item.val.encrypted_secret,
                  kdf_salt |-> item.val.kdf_salt,
                  auth_nonce |-> item.val.auth_nonce,
                  label |-> item.val.label,
                  account |-> item.val.account,
                  last_modified_at |-> item.val.last_modified_at]
    IN  IF ~item.ok THEN copy_done(item, clip, <<"item_by_id">>, <<>>)
        ELSE copy_decrypted(input, clip, refused,
                            decrypt_and_verify(input, as_bytes(enc_pass)))

\* tui.rs:455-475  copy_secret_to_clipboard: the Result, the clipboard after
\* it, the calls made, and what was given to and got from decrypt_and_verify.
copy_secret_to_clipboard(state, items, clip, enc_pass, refused) ==
    LET index == state.selected.val
        uid == state.items[index + 1].uid
    IN  IF ~state.selected.some THEN copy_done(Err("SelectionRequired"), clip, <<>>, <<>>)
        ELSE IF index >= Len(state.items) THEN copy_done(Err("panic"), clip, <<>>, <<>>)
        ELSE copy_item(item_by_id(items, uid), clip, enc_pass, refused)

\* An event: the key, and with Enter what the open panel holds when it is
\* pressed (typed: the five text areas of the New item dialog, or the lines
\* of the password entry), the time the clock then shows and whether the
\* clipboard refuses.  The keys that type the text change nothing else.
key(code) == [code |-> code, typed |-> <<>>, now |-> <<>>, refused |-> FALSE]

\* Variant: the popup consumes Esc only and hands every other event on.
handle_error_input_esc_only(state, w, event) ==
    IF ~state.popup_error.some THEN untouched("continue", state, w)
    ELSE IF event.code = "Esc"
    THEN untouched("break", [state EXCEPT !.popup_error = None], w)
    ELSE untouched("continue", state, w)

\* tui.rs:297-309  handle_error_input.
handle_error_input(state, w, event) ==
    IF ~state.popup_error.some THEN untouched("continue", state, w)
    ELSE IF event.code = "Esc"
    THEN untouched("break", [state EXCEPT !.popup_error = None], w)
    ELSE untouched("break", state, w)

\* tui.rs:324-326: the panel is closed and the copy has been made.
passwd_entry_done(closed, w, buffers, copy) ==
    [flow |-> "break", state |-> closed, items |-> w.items, rng |-> w.rng,
     clipboard |-> copy.clipboard, result |-> copy.result,
     calls |-> copy.calls, buffers |-> buffers, given |-> copy.given]

\* Variant: the password entry refuses a password that is not one non-empty
\* line before anything is read or derived.
handle_passwd_entry_input_validating(state, w, event) ==
    LET closed == [state EXCEPT !.passwd_entry = FALSE]
        validated == validate_enc_pass(event.typed)
    IN  IF ~state.passwd_entry THEN untouched("continue", state, w)
        ELSE IF event.code = "Esc" THEN untouched("break", closed, w)
        ELSE IF event.code = "Enter"
        THEN IF ~validated.ok
             THEN outcome("break", closed, w.items, w.rng, w.clipboard, validated, <<>>, <<>>)
             ELSE passwd_entry_done(closed, w, <<>>,
                    copy_secret_to_clipboard(closed, w.items, w.clipboard, validated.val,
                                             event.refused))
        ELSE untouched("break", state, w)

\* tui.rs:312-340  handle_passwd_entry_input.  With Enter the password is
\* the lines of the text area joined, in a Zeroizing String; the panel is
\* closed, and with it the text area is dropped, and the secret is copied.
handle_passwd_entry_input(state, w, event) ==
    LET password == join(event.typed)
        closed == [state EXCEPT !.passwd_entry = FALSE]
        buffers == drop_bytes(<<named("passwd_entry.enc_pass",
                                      Owned(bytes_of_lines(event.typed))),
                                named("password", Zeroizing(as_bytes(password)))>>)
    IN  IF ~state.passwd_entry THEN untouched("continue", state, w)
        ELSE IF event.code = "Esc" THEN untouched("break", closed, w)
        ELSE IF event.code = "Enter"
        THEN passwd_entry_done(closed, w, buffers,
                copy_secret_to_clipboard(closed, w.items, w.clipboard, password,
                                         event.refused))
        ELSE untouched("break", state, w)

\* Variant: the Find panel takes Esc, like the other keys, only when it has
\* the focus.
handle_find_input_focused_only(state, w, event) ==
    IF ~state.find.some THEN untouched("continue", state, w)
    ELSE IF ~state.find.val.has_focus THEN untouched("continue", state, w)
    ELSE IF event.code = "Esc"
    THEN outcome("break", sync_data([state EXCEPT !.find = None], w.items, TRUE),
                 w.items, w.rng, w.clipboard, Ok(<<>>),
                 <<"list_items_for_display">>, <<>>)
    ELSE IF event.code = "Enter"
    THEN untouched("break", [state EXCEPT !.find = Some([@.val EXCEPT !.has_focus = FALSE])], w)
    ELSE outcome("break",
                 sync_data([state EXCEPT !.find =
                                Some([@.val EXCEPT !.search_term = event.typed])],
                           w.items, TRUE),
                 w.items, w.rng, w.clipboard, Ok(<<>>),
                 <<"list_items_for_display">>, <<>>)

\* tui.rs:343-368  handle_find_input.
handle_find_input(state, w, event) ==
    IF ~state.find.some THEN untouched("continue", state, w)
    ELSE IF event.code = "Esc"
    THEN outcome("break", sync_data([state EXCEPT !.find = None], w.items, TRUE),
                 w.items, w.rng, w.clipboard, Ok(<<>>),
                 <<"list_items_for_display">>, <<>>)
    ELSE IF ~state.find.val.has_focus THEN untouched("continue", state, w)
    ELSE IF event.code = "Enter"
    THEN untouched("break", [state EXCEPT !.find = Some([@.val EXCEPT !.has_focus = FALSE])], w)
    ELSE outcome("break",
                 sync_data([state EXCEPT !.find =
                                Some([@.val EXCEPT !.search_term = event.typed])],
                           w.items, TRUE),
                 w.items, w.rng, w.clipboard, Ok(<<>>),
                 <<"list_items_for_display">>, <<>>)

\* tui.rs:395-402: the row of the added item, looked for from the end.
added_index(listed, uid) ==
    IF \E i \in 1..Len(listed) : listed[i].uid = uid
    THEN Some((CHOOSE i \in 1..Len(listed) :
                    /\ listed[i].uid = uid
                    /\ \A j \in (i + 1)..Len(listed) : listed[j].uid # uid) - 1)
    ELSE None

\* Variant: the dialog is closed only when add_item has succeeded.
new_item_kept_on_error(closed, w, added) ==
    LET synced == sync_data(closed, added.items, FALSE)
        idx == added_index(synced.items, added.result.val.uid)
    IN  IF ~added.result.ok
        THEN outcome("break", [closed EXCEPT !.new_item = TRUE], added.items, added.rng,
                     w.clipboard, added.result, added.calls, added.buffers)
        ELSE outcome("break",
                     IF idx.some THEN [synced EXCEPT !.selected = idx] ELSE synced,
                     added.items, added.rng, w.clipboard, Ok(<<>>),
                     added.calls \o <<"list_items_for_display">>, added.buffers)

\* tui.rs:388-403: what add_item returned is returned if it is an error;
\* otherwise the listing is reloaded and the new row selected if it is shown.
new_item_done(closed, w, added) ==
    LET synced == sync_data(closed, added.items, FALSE)
        idx == added_index(synced.items, added.result.val.uid)
    IN  IF ~added.result.ok
        THEN outcome("break", closed, added.items, added.rng, w.clipboard,
                     added.result, added.calls, added.buffers)
        ELSE outcome("break",
                     IF idx.some THEN [synced EXCEPT !.selected = idx] ELSE synced,
                     added.items, added.rng, w.clipboard, Ok(<<>>),
                     added.calls \o <<"list_items_for_display">>, added.buffers)

\* tui.rs:371-423  handle_new_input.  With Enter the dialog is taken out of
\* the State, so it is closed whatever add_item returns; after a successful
\* add_item the listing is reloaded and the new row selected if it is shown.
handle_new_input(state, w, event) ==
    LET closed == [state EXCEPT !.new_item = FALSE]
    IN  IF ~state.new_item THEN untouched("continue", state, w)
        ELSE IF event.code = "Esc" THEN untouched("break", closed, w)
        ELSE IF event.code = "Enter"
        THEN new_item_done(closed, w,
                NewItemState_add_item(event.typed, w.items, event.now, w.rng))
        ELSE untouched("break", state, w)

\* tui.rs:237-294  handle_main_table_event, for key presses.
handle_main_table_event(state, w, event) ==
    untouched("break",
        CASE event.code \in {"Up", "k"} ->
                [state EXCEPT !.selected = select_previous(@)]
          [] event.code \in {"Down", "Tab", "j"} ->
                [state EXCEPT !.selected = select_next(@)]
          [] event.code = "1" -> [state EXCEPT !.selected = select_first(@)]
          [] event.code = "0" -> [state EXCEPT !.selected = select_last(@)]
          [] event.code \in {"c", "Enter"} -> [state EXCEPT !.passwd_entry = TRUE]
          [] event.code \in {"f", "/"} ->
                [state EXCEPT !.find =
                    IF @.some THEN Some([@.val EXCEPT !.has_focus = TRUE])
                    ELSE Some([search_term |-> TextArea_default, has_focus |-> TRUE])]
          [] event.code = "n" -> [state EXCEPT !.new_item = TRUE]
          [] event.code = "q" -> [state EXCEPT !.is_running = FALSE]
          [] OTHER -> state,
        w)

\* tui.rs:210-234  handle_events_impl: the first handler that consumes the
\* event, in the order error popup, password entry, find, New item, table.
handle_events_impl(state, w, event) ==
    LET e == handle_error_input(state, w, event)
        p == handle_passwd_entry_input(state, w, event)
        f == handle_find_input(state, w, event)
        n == handle_new_input(state, w, event)
    IN  IF e.flow = "break" THEN e
        ELSE IF p.flow = "break" THEN p
        ELSE IF f.flow = "break" THEN f
        ELSE IF n.flow = "break" THEN n
        ELSE handle_main_table_event(state, w, event)

\* Variant: handle_events hands the handler's result on and shows nothing.
popup_not_set(handled) == handled

\* tui.rs:203-207  handle_events: an error a handler returns is put in the
\* popup.
popup_on_error(handled) ==
    IF handled.result.ok THEN handled
    ELSE [handled EXCEPT !.state.popup_error = Some(handled.result.err)]
handle_events(state, w, event) == popup_on_error(handle_events_impl(state, w, event))

\* What the New item dialog holds when Enter is pressed: its five text
\* areas.  The k-th well-formed dialog has its own label (with blanks
\* around it when k is even), an account when k is even, a secret of one
\* line or of two, and a password of its own.
Form(label, account, secret, enc_pass, confirm) ==
    [label |-> label, account |-> account, secret |-> secret,
     enc_pass |-> enc_pass, confirm |-> confirm]
FormPassword(k) == IF k % 2 = 1 THEN <<"p">> ELSE <<"q">>
FormSecret(k) == IF k % 2 = 1 THEN <<<<"s">>>> ELSE <<<<"s", " ">>, <<"e-acute">>>>
WellFormed(k) ==
    Form(<<IF k % 2 = 1 THEN DbLabel(k) ELSE <<" ">> \o DbLabel(k) \o <<" ">>>>,
         IF k % 2 = 1 THEN TextArea_default ELSE <<<<"x", " ">>>>,
         FormSecret(k),
         <<FormPassword(k)>>,
         <<FormPassword(k)>>)

\* Dialogs with one text area or two that add_item refuses: no label, a
\* blank label, a label of two lines; an account of two lines; no secret;
\* no password, a password of two lines; another confirmation, a
\* confirmation with a line more.
IllFormed ==
    LET ok == WellFormed(1)
    IN  {[ok EXCEPT !.label = TextArea_default],
         [ok EXCEPT !.label = <<<<" ">>>>],
         [ok EXCEPT !.label = <<DbLabel(1), <<"x">>>>],
         [ok EXCEPT !.account = <<<<"x">>, <<"y">>>>],
         [ok EXCEPT !.secret = TextArea_default],
         [ok EXCEPT !.enc_pass = TextArea_default],
         [ok EXCEPT !.enc_pass = <<<<"p">>, <<"q">>>>, !.confirm = <<<<"p">>, <<"q">>>>],
         [ok EXCEPT !.confirm = <<<<"q">>>>],
         [ok EXCEPT !.confirm = <<<<"p">>, <<>>>>],
         [ok EXCEPT !.label = TextArea_default, !.account = <<<<"x">>, <<"y">>>>],
         [ok EXCEPT !.account = <<<<"x">>, <<"y">>>>, !.secret = TextArea_default],
         [ok EXCEPT !.secret = TextArea_default, !.enc_pass = TextArea_default],
         [ok EXCEPT !.enc_pass = TextArea_default, !.confirm = TextArea_default],
         [ok EXCEPT !.label = <<<<" ">>>>, !.confirm = <<<<"q">>>>]}

Forms == {WellFormed(k) : k \in 1..MaxItems} \cup IllFormed

\* What the password entry holds when Enter is pressed: either password,
\* nothing, or two lines.
PasswordLines == {<<<<"p">>>>, <<<<"q">>>>, TextArea_default, <<<<"p">>, <<"q">>>>}

\* Utc::now(), tui.rs:773: the clock moves with what has happened.
Utc_now(r) == DbTimestamp((r \div 2) + 1)

\* The keys of the model: those the handlers tell apart, and one that none
\* of them knows.
Keys == {"Esc", "Enter", "n", "c", "q", "Up", "Down", "1", "0", "x"}

\* The events that can arrive in a State: a key; Enter comes with what the
\* panel that will consume it holds.
EventsIn(state, r) ==
    {key(code) : code \in Keys \ {"Enter"}}
    \cup (IF state.popup_error.some THEN {key("Enter")}
          ELSE IF state.passwd_entry
          THEN {[code |-> "Enter", typed |-> lines, now |-> <<>>, refused |-> refused] :
                    lines \in PasswordLines, refused \in BOOLEAN}
          ELSE IF state.new_item
          THEN {[code |-> "Enter", typed |-> form, now |-> Utc_now(r), refused |-> FALSE] :
                    form \in Forms}
          ELSE {key("Enter")})

\* main.rs:523-524: the program opens the store and builds its State.
Start ==
    LET call == open([tables |-> dbTables, meta |-> dbMeta], SCHEMA_VERSION)
    IN  /\ ui = <<>>
        /\ dbMeta' = call.meta
        /\ dbTables' = call.tables
        /\ dbHandle' = [dbHandle EXCEPT ![1] = <<call.result.val>>]
        /\ ui' = <<State_new(dbItems)>>
        /\ UNCHANGED <<cryptoVars, dbItems, dbLast, callVars, concVars, clipboard, uiLast,
                       screenVars>>

\* main.rs:51-58: the State is drawn, then the event is handled.  At most
\* MaxItems secrets are ever encrypted.
Turn(event) ==
    \E drawn \in {draw(ui[1])} :
    \E handled \in {handle_events(drawn,
                                  [items |-> dbItems, rng |-> rng,
                                   clipboard |-> clipboard],
                                  event)} :
        /\ (drawn.new_item /\ event.code = "Enter") => rng < 2 * MaxItems
        /\ ui' = <<handled.state>>
        /\ dbItems' = handled.items
        /\ rng' = handled.rng
        /\ clipboard' = handled.clipboard
        /\ uiLast' = <<[event |-> event, state |-> drawn, items |-> dbItems,
                        result |-> handled.result, calls |-> handled.calls,
                        buffers |-> handled.buffers, given |-> handled.given,
                        clipboard |-> clipboard]>>
        /\ UNCHANGED <<encCalls, din, decRes, dbMeta, dbHandle, dbLast, dbTables,
                       callVars, concVars, screenVars>>

\* main.rs:49-59: one turn of the run loop, the Find panel never being
\* asked for.
RunLoop ==
    /\ ui # <<>>
    /\ ui[1].is_running
    /\ \E event \in EventsIn(ui[1], rng) : Turn(event)

\* The keys of the panels: those of the model and the one that opens the
\* Find panel.
PanelKeys == Keys \cup {"f"}

\* What the search field holds after a key has been typed into it: a term
\* with a blank after it that only the second label has, a term no item
\* has, and nothing.
FindTerms == {<<<<"2", " ">>>>, <<<<"y">>>>, TextArea_default}

\* The dialogs and the passwords entered while the panels are looked at:
\* the well-formed dialogs and one whose confirmation differs; the first
\* password and none.
PanelForms == {WellFormed(k) : k \in 1..MaxItems} \cup {[WellFormed(1) EXCEPT !.confirm = <<<<"q">>>>]}
PanelPasswords == {<<<<"p">>>>, TextArea_default}

\* The Find panel is open and has the focus.
find_has_focus(state) == IF state.find.some THEN state.find.val.has_focus ELSE FALSE

\* The events that can arrive in a State with all its panels: a key; Enter
\* comes with what the panel that will consume it holds, and a key typed
\* into the search field with what the field holds after it.
PanelEventsIn(state, r) ==
    IF state.popup_error.some THEN {key(code) : code \in PanelKeys}
    ELSE IF state.passwd_entry
    THEN {key(code) : code \in PanelKeys \ {"Enter"}}
         \cup {[code |-> "Enter", typed |-> lines, now |-> <<>>, refused |-> refused] :
                    lines \in PanelPasswords, refused \in BOOLEAN}
    ELSE IF find_has_focus(state)
    THEN {key("Esc"), key("Enter")}
         \cup {[code |-> code, typed |-> term, now |-> <<>>, refused |-> FALSE] :
                    code \in {"x", "q"}, term \in FindTerms}
    ELSE IF state.new_item
    THEN {key(code) : code \in PanelKeys \ {"Enter"}}
         \cup {[code |-> "Enter", typed |-> form, now |-> Utc_now(r), refused |-> FALSE] :
                    form \in PanelForms}
    ELSE {key(code) : code \in PanelKeys}

\* main.rs:49-59: one turn of the run loop, with the Find panel.
PanelLoop ==
    /\ ui # <<>>
    /\ ui[1].is_running
    /\ \E event \in PanelEventsIn(ui[1], rng) : Turn(event)

\* db.rs:89-92, 208-229: Database::add_item is public, and a caller other
\* than the dialog (the tests are one) adds an item whose encrypted_secret is
\* whatever it likes: here a short one without padding and a short padded
\* one that is not UTF-8.  It does so before the dialog has added anything.
OtherCallersInputs == {ForeignInput(msg) : msg \in {<<65, 66>>, <<255, 128, 0, 0>>}}
AddForeignItem ==
    /\ ui # <<>>
    /\ dbItems = <<>>
    /\ \E input \in OtherCallersInputs :
        LET call == add_item(dbItems, input)
        IN  /\ call.result.ok
            /\ dbItems' = call.items
            /\ UNCHANGED <<cryptoVars, dbMeta, dbHandle, dbLast, dbTables, callVars,
                           concVars, tuiVars, screenVars>>

TuiNext == Start \/ RunLoop

TuiSpec == Init /\ [][TuiNext]_vars

\* The program, and the other caller before it.
CallersNext == Start \/ RunLoop \/ AddForeignItem

CallersSpec == Init /\ [][CallersNext]_vars

\* The program with all its panels, alone on its store.
PanelsNext == Start \/ PanelLoop

PanelsSpec == Init /\ [][PanelsNext]_vars

\* The program with all its panels, and the other caller before it.
SharedPanelsNext == Start \/ PanelLoop \/ AddForeignItem

SharedPanelsSpec == Init /\ [][SharedPanelsNext]_vars

---------------------------------------------------------------------------
(* The screen guard, src/src/screen.rs.  Each thread is at one statement   *)
(* of ScreenGuard::open or of the drop of a guard; one step is one access  *)
(* to IS_OPEN or one call to the terminal.                                 *)

\* An assignment to the local `result` drops the value it held: a
\* ScreenGuard in it is finalized (screen.rs:89-95) before control goes on
\* to the statement after.
assign(self, value, after) ==
    [self EXCEPT !.result = value,
                 !.after = IF self.result.ok THEN after ELSE "idle",
                 !.pc = IF self.result.ok THEN "disable_raw_mode" ELSE after]

\* finalize has returned, with or without an error: the drop is over and
\* control goes on.
dropped(self) == [self EXCEPT !.pc = self.after, !.after = "idle"]

\* screen.rs:26-30: open is called: result is the error, and fetch_update
\* loads the flag.
ScreenGuard_open(t) ==
    /\ thread[t].pc = "idle"
    /\ thread[t].opens < MaxScreenOpens
    /\ thread' = [thread EXCEPT ![t] =
            [@ EXCEPT !.pc = "closure", !.prev = IS_OPEN,
                      !.result = Err("ScreenAlreadyOpen"), !.opens = @ + 1,
                      !.at_call = <<[IS_OPEN |-> IS_OPEN, terminal |-> terminal]>>]]
    /\ UNCHANGED <<IS_OPEN, terminal>>

\* screen.rs:31-34: the closure is given the value loaded: with the flag set
\* the result is the error and the update is given up.
closure(t) ==
    /\ thread[t].pc = "closure"
    /\ thread' = [thread EXCEPT ![t] =
            IF thread[t].prev THEN assign(@, Err("ScreenAlreadyOpen"), "return")
            ELSE [@ EXCEPT !.pc = "enable_raw_mode"]]
    /\ UNCHANGED <<IS_OPEN, terminal>>

\* screen.rs:36-39: raw mode is enabled, or the call fails (it cannot when
\* raw mode is on already) and the update is given up.
enable_raw_mode(t) ==
    /\ thread[t].pc = "enable_raw_mode"
    /\ \E failed \in BOOLEAN :
        /\ failed => ~terminal.raw
        /\ IF failed
           THEN /\ thread' = [thread EXCEPT ![t] = assign(@, Err("Io"), "return")]
                /\ UNCHANGED terminal
           ELSE /\ thread' = [thread EXCEPT ![t].pc = "EnterAlternateScreen"]
                /\ terminal' = [terminal EXCEPT !.raw = TRUE]
    /\ UNCHANGED IS_OPEN

\* screen.rs:41-44: the alternate screen is entered, or the write fails and
\* the update is given up.
EnterAlternateScreen(t) ==
    /\ thread[t].pc = "EnterAlternateScreen"
    /\ \E failed \in BOOLEAN :
        IF failed
        THEN /\ thread' = [thread EXCEPT ![t] = assign(@, Err("Io"), "return")]
             /\ UNCHANGED terminal
        ELSE /\ thread' = [thread EXCEPT ![t].pc = "Terminal_new"]
             /\ terminal' = [terminal EXCEPT !.alternate = TRUE]
    /\ UNCHANGED IS_OPEN

\* screen.rs:46-55: the Terminal is built and the guard with it is the
\* result, the closure asking for the flag to be set; or it fails and the
\* update is given up.
Terminal_new(t) ==
    /\ thread[t].pc = "Terminal_new"
    /\ \E failed \in BOOLEAN :
        thread' = [thread EXCEPT ![t] =
            IF failed THEN assign(@, Err("Io"), "return")
            ELSE assign(@, Ok("ScreenGuard"), "compare_exchange_weak")]
    /\ UNCHANGED <<IS_OPEN, terminal>>

\* screen.rs:30, AtomicBool::fetch_update: the flag is set if it still is
\* what was loaded; if it is not, or if the weak exchange fails for no
\* reason, the closure is run again on the value found.
compare_exchange_weak(t) ==
    /\ thread[t].pc = "compare_exchange_weak"
    /\ \E spurious \in BOOLEAN :
        /\ spurious => (IS_OPEN = thread[t].prev /\ thread[t].spurious < MaxSpurious)
        /\ IF IS_OPEN = thread[t].prev /\ ~spurious
           THEN /\ IS_OPEN' = TRUE
                /\ thread' = [thread EXCEPT ![t].pc = "return"]
           ELSE /\ UNCHANGED IS_OPEN
                /\ thread' = [thread EXCEPT ![t] =
                        [@ EXCEPT !.pc = "closure", !.prev = IS_OPEN,
                                  !.spurious = IF spurious THEN @ + 1 ELSE @]]
    /\ UNCHANGED terminal

\* screen.rs:58: open returns result: the caller holds the guard, or has an
\* error.
return(t) ==
    /\ thread[t].pc = "return"
    /\ thread' = [thread EXCEPT ![t].pc = IF thread[t].result.ok THEN "holding" ELSE "idle"]
    /\ UNCHANGED <<IS_OPEN, terminal>>

\* screen.rs:89-91: the caller drops its guard.
drop(t) ==
    /\ thread[t].pc = "holding"
    /\ thread' = [thread EXCEPT ![t] = [@ EXCEPT !.pc = "disable_raw_mode", !.after = "idle"]]
    /\ UNCHANGED <<IS_OPEN, terminal>>

\* screen.rs:68: finalize disables raw mode, or returns the error (there is
\* none when raw mode is off already).
disable_raw_mode(t) ==
    /\ thread[t].pc = "disable_raw_mode"
    /\ \E failed \in BOOLEAN :
        /\ failed => terminal.raw
        /\ IF failed
           THEN /\ thread' = [thread EXCEPT ![t] = dropped(@)]
                /\ UNCHANGED terminal
           ELSE /\ thread' = [thread EXCEPT ![t].pc = "LeaveAlternateScreen"]
                /\ terminal' = [terminal EXCEPT !.raw = FALSE]
    /\ UNCHANGED IS_OPEN

\* screen.rs:69: finalize leaves the alternate screen, or returns the error.
LeaveAlternateScreen(t) ==
    /\ thread[t].pc = "LeaveAlternateScreen"
    /\ \E failed \in BOOLEAN :
        IF failed
        THEN /\ thread' = [thread EXCEPT ![t] = dropped(@)]
             /\ UNCHANGED terminal
        ELSE /\ thread' = [thread EXCEPT ![t].pc = "IS_OPEN_store"]
             /\ terminal' = [terminal EXCEPT !.alternate = FALSE]
    /\ UNCHANGED IS_OPEN

\* screen.rs:70-71: finalize clears the flag and returns.
IS_OPEN_store(t) ==
    /\ thread[t].pc = "IS_OPEN_store"
    /\ IS_OPEN' = FALSE
    /\ thread' = [thread EXCEPT ![t] = dropped(@)]
    /\ UNCHANGED terminal

ScreenNext ==
    \E t \in Threads :
        /\ \/ ScreenGuard_open(t)
           \/ closure(t)
           \/ enable_raw_mode(t)
           \/ EnterAlternateScreen(t)
           \/ Terminal_new(t)
           \/ compare_exchange_weak(t)
           \/ return(t)
           \/ drop(t)
           \/ disable_raw_mode(t)
           \/ LeaveAlternateScreen(t)
           \/ IS_OPEN_store(t)
        /\ UNCHANGED <<cryptoVars, dbVars, callVars, concVars, tuiVars>>

ScreenSpec == Init /\ [][ScreenNext]_vars

---------------------------------------------------------------------------
(* Properties of the store. *)

\* The last call was add_item; its input, its result, the table before it.
Added == dbLast # <<>> /\ dbLast[1].op = "add_item"
AddedInput == dbLast[1].input
AddedResult == dbLast[1].result
Before == dbLast[1].before

\* Every row the table held before the last call is still returned, as it
\* was, by item_by_id.
StillStored ==
    \A i \in 1..Len(Before) : item_by_id(dbItems, Before[i].uid) = Ok(from_row(Before[i]))

\* C6: store uniqueness.  After any sequence of open and add_item calls,
\* successful or failed, no two rows share a label, none share a kdf_salt
\* and none share an auth_nonce.
C6_StoreUniqueness ==
    \A i, j \in 1..Len(dbItems) :
        i # j =>
            /\ dbItems[i].label # dbItems[j].label
            /\ dbItems[i].kdf_salt # dbItems[j].kdf_salt
            /\ dbItems[i].auth_nonce # dbItems[j].auth_nonce

\* Two rows are stored and an add_item has just failed.
C6_Witness ==
    /\ Len(dbItems) = 2
    /\ Added /\ ~AddedResult.ok

\* C7: salt and nonce.  add_item given the kdf_salt of a stored row, or the
\* auth_nonce of a stored row, fails with the constraint violation; the
\* table is as it was and every row is still returned by item_by_id.
C7_SaltNonceEnforced ==
    (/\ Added
     /\ \E i \in 1..Len(Before) :
            \/ Before[i].kdf_salt = AddedInput.kdf_salt
            \/ Before[i].auth_nonce = AddedInput.auth_nonce)
        => (/\ AddedResult = ConstraintViolation
            /\ dbItems = Before
            /\ StillStored)

\* An add_item with the salt of the stored row, but another nonce, label and
\* account, has failed; the row is still there.
C7_Witness ==
    /\ Added /\ ~AddedResult.ok
    /\ Len(Before) = 1
    /\ Before[1].kdf_salt = AddedInput.kdf_salt
    /\ Before[1].auth_nonce # AddedInput.auth_nonce
    /\ Before[1].label # AddedInput.label
    /\ Before[1].account # AddedInput.account
    /\ item_by_id(dbItems, Before[1].uid) = Ok(from_row(Before[1]))

\* C8: label.  add_item given the label of a stored row fails with the
\* constraint violation, also when its salt and nonce are in no row; the
\* table is as it was.
C8_LabelEnforced ==
    (/\ Added
     /\ \E i \in 1..Len(Before) : Before[i].label = AddedInput.label)
        => (AddedResult = ConstraintViolation /\ dbItems = Before)

\* An add_item with the label of the stored row and a salt and a nonce that
\* no row uses has failed.
C8_Witness ==
    /\ Added /\ ~AddedResult.ok
    /\ Len(Before) = 1
    /\ Before[1].label = AddedInput.label
    /\ Before[1].kdf_salt # AddedInput.kdf_salt
    /\ Before[1].auth_nonce # AddedInput.auth_nonce
    /\ dbItems = Before

\* The input of the last add_item has a kdf_salt and an auth_nonce, a label,
\* that no row had.
FreshSaltAndNonce ==
    \A i \in 1..Len(Before) :
        /\ Before[i].kdf_salt # AddedInput.kdf_salt
        /\ Before[i].auth_nonce # AddedInput.auth_nonce
FreshLabel == \A i \in 1..Len(Before) : Before[i].label # AddedInput.label

\* The last add_item succeeded and its item is the new last row, returned
\* by item_by_id with the uid it was given.
Accepted ==
    /\ AddedResult.ok
    /\ dbItems = Append(Before, to_row(AddedResult.val.uid, AddedInput))
    /\ item_by_id(dbItems, AddedResult.val.uid) = AddedResult
    /\ AddedResult.val.kdf_salt = AddedInput.kdf_salt
    /\ AddedResult.val.auth_nonce = AddedInput.auth_nonce

\* C22 as stated: an item whose kdf_salt and auth_nonce both differ from
\* those of every stored item is accepted: add_item succeeds for it and the
\* item becomes retrievable.
C22_FreshSaltNonceAccepted == (Added /\ FreshSaltAndNonce) => Accepted

\* C22 as amended: an item whose kdf_salt, auth_nonce and label all differ
\* from those of every stored item is accepted: add_item succeeds for it and
\* the item becomes retrievable.
C22_FreshItemAccepted == (Added /\ FreshSaltAndNonce /\ FreshLabel) => Accepted

\* A second item, with its own label, salt and nonce and the
\* encrypted_secret of the first, has been accepted.
C22_Witness ==
    /\ Added /\ FreshSaltAndNonce /\ FreshLabel
    /\ Len(Before) = 1
    /\ Before[1].encrypted_secret = AddedInput.encrypted_secret
    /\ Accepted

\* The last call was Database::open: the build that made it, its result, and
\* the recorded version before it (Recorded is meaningful when HadVersion).
Opened == dbLast # <<>> /\ dbLast[1].op = "open"
OpenedBuild == dbLast[1].input
OpenedResult == dbLast[1].result
HadVersion == dbLast[1].meta # <<>>
Recorded == dbLast[1].meta[1]

\* C13: schema gate.  Database::open on a store whose recorded SchemaVersion
\* is greater than the build's returns SchemaVersionMismatch and no handle,
\* and leaves the store as it was: the item rows, the metadata row with the
\* recorded version, and the set of tables.
C13_SchemaGate ==
    (Opened /\ HadVersion /\ Recorded > OpenedBuild)
        => (/\ OpenedResult = SchemaVersionMismatch(OpenedBuild, Recorded)
            /\ ~OpenedResult.ok
            /\ \A p \in Procs : BuildVersion[p] = OpenedBuild => dbHandle[p] = <<>>
            /\ dbItems = Before
            /\ dbMeta = dbLast[1].meta
            /\ dbTables = dbLast[1].tables)

\* This build has been refused a store that a newer build recorded its
\* version in and added an item to.
C13_Witness ==
    /\ Opened /\ HadVersion
    /\ OpenedBuild = SCHEMA_VERSION /\ Recorded = SCHEMA_VERSION + 1
    /\ ~OpenedResult.ok
    /\ Len(dbItems) >= 1

\* C14: insert-if-absent.  An open of a store with no recorded version
\* records the version of the build that opens it; an open of a store with a
\* recorded version leaves it as it is and returns it (in the handle, or in
\* the mismatch error); and no step ever changes a recorded version, so it
\* stays the one the first open wrote.
C14_InsertIfAbsent ==
    /\ [](Opened =>
            IF HadVersion
            THEN /\ dbMeta = dbLast[1].meta
                 /\ OpenedResult.ok => OpenedResult.val.schema_version = Recorded
                 /\ ~OpenedResult.ok => OpenedResult.val.actual = Recorded
            ELSE /\ dbMeta = <<OpenedBuild>>
                 /\ OpenedResult = Ok([schema_version |-> OpenedBuild]))
    /\ [][dbMeta # <<>> => dbMeta' = dbMeta]_vars

\* A store whose version this build recorded has been opened by the newer
\* build, and the recorded version is still this build's.
C14_Witness ==
    /\ Opened /\ HadVersion
    /\ Recorded = SCHEMA_VERSION /\ OpenedBuild = SCHEMA_VERSION + 1
    /\ OpenedResult.ok
    /\ dbMeta = <<SCHEMA_VERSION>>

\* The last call was item_by_id or list_items_for_display.
Got == dbLast # <<>> /\ dbLast[1].op = "item_by_id"
Listed == dbLast # <<>> /\ dbLast[1].op = "list_items_for_display"
SearchTerm == dbLast[1].input
Listing == dbLast[1].result.val

\* C17: insert/get round trip.  The Item a successful add_item returns has
\* the label, account, last_modified_at, encrypted_secret, kdf_salt and
\* auth_nonce of the input, and item_by_id with its uid returns an Item equal
\* to it; an item_by_id that succeeds returns the item of the uid asked for.
C17_InsertGetRoundTrip ==
    /\ (Added /\ AddedResult.ok) =>
            /\ AddedResult.val.label = AddedInput.label
            /\ AddedResult.val.account = AddedInput.account
            /\ AddedResult.val.last_modified_at = AddedInput.last_modified_at
            /\ AddedResult.val.encrypted_secret = AddedInput.encrypted_secret
            /\ AddedResult.val.kdf_salt = AddedInput.kdf_salt
            /\ AddedResult.val.auth_nonce = AddedInput.auth_nonce
            /\ item_by_id(dbItems, AddedResult.val.uid) = AddedResult
    /\ (Got /\ dbLast[1].result.ok) =>
            /\ dbLast[1].result.val.uid = dbLast[1].input
            /\ \E i \in 1..Len(dbItems) : dbLast[1].result.val = from_row(dbItems[i])

\* An item with an account and a timestamp with a fraction of a second has
\* been added as the second row and is returned by item_by_id.
C17_Witness ==
    /\ Added /\ AddedResult.ok
    /\ Len(Before) = 1
    /\ AddedInput.account.some
    /\ AddedInput.last_modified_at.nano # 0
    /\ item_by_id(dbItems, AddedResult.val.uid) = AddedResult

\* C18: fresh uid.  The input of add_item carries no uid; a successful
\* add_item returns a uid that no row of the table had, and appends the row;
\* a failed one changes nothing; no two rows share a uid; and no step removes
\* or renumbers a row, so a uid once assigned is never free to be assigned
\* again.
C18_FreshUid ==
    /\ [](
          /\ Added => "uid" \notin DOMAIN AddedInput
          /\ (Added /\ AddedResult.ok) =>
                /\ \A i \in 1..Len(Before) : Before[i].uid # AddedResult.val.uid
                /\ Len(dbItems) = Len(Before) + 1
                /\ dbItems[Len(dbItems)].uid = AddedResult.val.uid
          /\ (Added /\ ~AddedResult.ok) => dbItems = Before
          /\ \A i, j \in 1..Len(dbItems) : i # j => dbItems[i].uid # dbItems[j].uid
         )
    /\ [][/\ Len(dbItems') >= Len(dbItems)
           /\ \A i \in 1..Len(dbItems) : dbItems'[i] = dbItems[i]]_vars

\* The second row has been added and has got the uid 2.
C18_Witness ==
    /\ Added /\ AddedResult.ok
    /\ Len(Before) = 1
    /\ Before[1].uid = 1
    /\ AddedResult.val.uid = 2

\* C19: unfiltered listing.  list_items_for_display(None) returns as many
\* entries as the table has rows, the i-th being the projection (uid, label,
\* account, last_modified_at) of the i-th row inserted, so none is missing or
\* repeated, and their uids ascend.
C19_UnfilteredListing ==
    (Listed /\ ~SearchTerm.some) =>
        /\ dbLast[1].result.ok
        /\ Len(Listing) = Len(dbItems)
        /\ \A i \in 1..Len(Listing) :
                /\ Listing[i].uid = dbItems[i].uid
                /\ Listing[i].label = dbItems[i].label
                /\ Listing[i].account = dbItems[i].account
                /\ Listing[i].last_modified_at = from_row(dbItems[i]).last_modified_at
                /\ DOMAIN Listing[i] = {"uid", "label", "account", "last_modified_at"}
        /\ \A i, j \in 1..Len(Listing) : i < j => Listing[i].uid < Listing[j].uid

\* Two items, inserted with the later label first, have been listed.
C19_Witness ==
    /\ Listed /\ ~SearchTerm.some
    /\ Len(dbItems) = 2
    /\ dbItems[1].label = DbLabel(2) /\ dbItems[2].label = DbLabel(1)
    /\ Len(Listing) = 2

\* A row matches a pattern when its label does or when it has an account
\* that does.
Matches(row, pattern) ==
    \/ like(pattern, row.label)
    \/ (row.account.some /\ like(pattern, row.account.val))

\* C20: filtered listing.  list_items_for_display(Some(p)) returns exactly
\* the rows whose label matches p or whose account matches p, each once, as
\* projections with ascending uids; a row without an account is returned if
\* and only if its label matches.
C20_FilteredListing ==
    (Listed /\ SearchTerm.some) =>
        /\ dbLast[1].result.ok
        /\ \A i \in 1..Len(Listing) :
                \E k \in 1..Len(dbItems) :
                    /\ Listing[i] = display_item(dbItems[k])
                    /\ Matches(dbItems[k], SearchTerm.val)
        /\ \A k \in 1..Len(dbItems) :
                Matches(dbItems[k], SearchTerm.val) =>
                    Cardinality({i \in 1..Len(Listing) : Listing[i].uid = dbItems[k].uid}) = 1
        /\ \A i, j \in 1..Len(Listing) : i < j => Listing[i].uid < Listing[j].uid
        /\ \A k \in 1..Len(dbItems) :
                ~dbItems[k].account.some =>
                    ((\E i \in 1..Len(Listing) : Listing[i].uid = dbItems[k].uid)
                        <=> like(SearchTerm.val, dbItems[k].label))

\* Of two rows, the one without an account was left out and the other was
\* returned for its account alone: the pattern matches no label.
C20_Witness ==
    /\ Listed /\ SearchTerm.some
    /\ Len(dbItems) = 2
    /\ Len(Listing) = 1
    /\ \E k \in 1..2 :
            /\ Listing[1].uid = dbItems[k].uid
            /\ ~like(SearchTerm.val, dbItems[k].label)
            /\ dbItems[k].account.some
    /\ \E k \in 1..2 : ~dbItems[k].account.some

\* A text with its ASCII capitals made small.
Folded(text) == [i \in DOMAIN text |-> fold_case(text[i])]

\* The pattern differs from the row's label or account in letter case alone:
\* read letter for letter it matches neither, and with the case of ASCII
\* letters set aside it matches one of them.
DiffersInCaseOnly(row, pattern) ==
    /\ ~like_case_sensitive(pattern, row.label)
    /\ ~(row.account.some /\ like_case_sensitive(pattern, row.account.val))
    /\ \/ like_case_sensitive(Folded(pattern), Folded(row.label))
       \/ /\ row.account.some
          /\ like_case_sensitive(Folded(pattern), Folded(row.account.val))

InListing(row) == \E i \in 1..Len(Listing) : Listing[i].uid = row.uid

\* C21 as stated: filter matching is case-sensitive, so that
\* list_items_for_display does not return an item from whose label and
\* account the pattern differs in letter case only.
C21_CaseSensitiveFilter ==
    (Listed /\ SearchTerm.some) =>
        \A k \in 1..Len(dbItems) :
            DiffersInCaseOnly(dbItems[k], SearchTerm.val) => ~InListing(dbItems[k])

\* C21 as amended: filter matching sets the case of ASCII letters aside, as
\* SQLite's LIKE does: list_items_for_display returns every item whose label
\* or account the pattern matches once both are folded to small letters, and
\* so returns an item from which the pattern differs in letter case only.
C21_CaseInsensitiveFilter ==
    (Listed /\ SearchTerm.some) =>
        \A k \in 1..Len(dbItems) :
            /\ DiffersInCaseOnly(dbItems[k], SearchTerm.val) => InListing(dbItems[k])
            /\ InListing(dbItems[k]) <=>
                    \/ like_case_sensitive(Folded(SearchTerm.val), Folded(dbItems[k].label))
                    \/ /\ dbItems[k].account.some
                       /\ like_case_sensitive(Folded(SearchTerm.val),
                                              Folded(dbItems[k].account.val))

\* A pattern in capitals has been asked for and the listing holds an item
\* whose label has the same letters in small.
C21_Witness ==
    /\ Listed /\ SearchTerm.some
    /\ \E k \in 1..Len(dbItems) :
            /\ DiffersInCaseOnly(dbItems[k], SearchTerm.val)
            /\ ~dbItems[k].account.some
            /\ InListing(dbItems[k])

\* A process has executed its insert-if-absent, its read, in its current or
\* last open.
HasInserted(p) == conn[p].pc \in {"inserted", "selected", "committed", "open", "refused"}
HasRead(p) == conn[p].pc \in {"selected", "committed", "open", "refused"}

\* C15: concurrent first opens agree.  However the statements of the
\* processes' opens interleave, once a process has executed its
\* insert-if-absent exactly one insert has written the SchemaVersion row;
\* all processes that have read the version have read the same value, the
\* recorded one; and in the order of execution every insert-if-absent is
\* followed immediately by the read of the same process.
C15_ConcurrentOpensAgree ==
    /\ (\E p \in Procs : HasInserted(p) \/ conn[p].opens > 1) =>
            /\ dbMeta # <<>>
            /\ Cardinality({p \in Procs : conn[p].inserts = 1}) = 1
            /\ \A p \in Procs : conn[p].inserts <= 1
    /\ \A p, q \in Procs :
            (HasRead(p) /\ HasRead(q)) =>
                (conn[p].version = conn[q].version /\ conn[p].version = dbMeta[1])
    /\ \A i \in 1..Len(opLog) :
            opLog[i][2] = "insert_or_ignore_one" =>
                (i < Len(opLog) => opLog[i + 1] = <<opLog[i][1], "select_by_key">>)
    /\ \A i \in 1..Len(opLog) :
            opLog[i][2] = "select_by_key" =>
                (i > 1 /\ opLog[i - 1] = <<opLog[i][1], "insert_or_ignore_one">>)

\* Both processes were connected before either began its transaction; the
\* newer build inserted its version, this build read that version too and
\* was refused.
C15_Witness ==
    /\ opLog = <<<<2, "insert_or_ignore_one">>, <<2, "select_by_key">>,
                 <<1, "insert_or_ignore_one">>, <<1, "select_by_key">>>>
    /\ conn[1].opens = 1 /\ conn[2].opens = 1
    /\ conn[2].inserts = 1 /\ conn[1].inserts = 0
    /\ conn[1].version = SCHEMA_VERSION + 1 /\ conn[2].version = SCHEMA_VERSION + 1
    /\ At(1, "refused") /\ At(2, "open")

\* The add_item call of a process has returned; two inputs collide.
Returned(p) == dbCalls[p] # <<>> /\ dbCalls[p][1].pc = "returned"
Collide(a, b) ==
    \/ a.label = b.label
    \/ a.kdf_salt = b.kdf_salt
    \/ a.auth_nonce = b.auth_nonce

\* C16: concurrent inserts keep uniqueness.  However the add_item calls of
\* the processes interleave, no two rows share a label, a kdf_salt or an
\* auth_nonce; the row of every call that succeeded is in the table; and of
\* two calls of different processes whose inputs collide at most one has
\* succeeded, the other having got the constraint violation.
C16_ConcurrentInserts ==
    /\ \A i, j \in 1..Len(dbItems) :
            i # j => ~Collide(dbItems[i], dbItems[j])
    /\ \A p \in Procs :
            (Returned(p) /\ dbCalls[p][1].result.ok) =>
                item_by_id(dbItems, dbCalls[p][1].result.val.uid) = dbCalls[p][1].result
    /\ \A p, q \in Procs :
            (/\ p # q /\ Returned(p) /\ Returned(q)
             /\ Collide(dbCalls[p][1].input, dbCalls[q][1].input)) =>
                /\ ~(dbCalls[p][1].result.ok /\ dbCalls[q][1].result.ok)
                /\ dbCalls[p][1].result.ok => dbCalls[q][1].result = ConstraintViolation

\* Two processes called add_item on the empty table, before either insert
\* was executed, with inputs that share the salt and nothing else; the one
\* has succeeded and the other has failed.
C16_Witness ==
    /\ Returned(1) /\ Returned(2)
    /\ dbCalls[1][1].seen = <<>> /\ dbCalls[2][1].seen = <<>>
    /\ dbCalls[1][1].input.kdf_salt = dbCalls[2][1].input.kdf_salt
    /\ dbCalls[1][1].input.label # dbCalls[2][1].input.label
    /\ dbCalls[1][1].input.auth_nonce # dbCalls[2][1].input.auth_nonce
    /\ ~dbCalls[1][1].result.ok /\ dbCalls[2][1].result.ok
    /\ Len(dbItems) = 1

---------------------------------------------------------------------------
(* Properties of the user interface. *)

\* The last turn of the run loop: its event, the State it was handled in,
\* the table before it, and what the handler returned, called and dropped.
Handled == uiLast # <<>>
LastEvent == uiLast[1].event
StateBefore == uiLast[1].state
ItemsBefore == uiLast[1].items
HandlerResult == uiLast[1].result
HandlerCalls == uiLast[1].calls
ClipboardBefore == uiLast[1].clipboard
Called(name) == \E i \in 1..Len(HandlerCalls) : HandlerCalls[i] = name

\* Enter was handled by the New item dialog, by the password entry.
NewItemEntered ==
    /\ Handled
    /\ LastEvent.code = "Enter"
    /\ ~StateBefore.popup_error.some /\ ~StateBefore.passwd_entry
    /\ StateBefore.new_item
    /\ IF StateBefore.find.some THEN ~StateBefore.find.val.has_focus ELSE TRUE
PasswordEntered ==
    /\ Handled
    /\ LastEvent.code = "Enter"
    /\ ~StateBefore.popup_error.some
    /\ StateBefore.passwd_entry

\* The dialog's add_item has stored an item: the row it appended.
DialogStored == NewItemEntered /\ HandlerResult.ok
StoredRow == dbItems[Len(ItemsBefore) + 1]

\* The length of an encrypted_secret is that of the tag and of one or more
\* whole blocks.
TagAndBlocks(n) ==
    /\ n >= TAG_LEN + PADDING_BLOCK_SIZE
    /\ (n - TAG_LEN) % PADDING_BLOCK_SIZE = 0

\* C23 as stated: after any sequence of add_item calls, every item persisted
\* in the store has an encrypted_secret whose length is 16 + k * 256 for some
\* integer k >= 1.
C23_StoredLength ==
    \A i \in 1..Len(dbItems) : TagAndBlocks(secret_len(dbItems[i].encrypted_secret))

\* C23 as amended: after any sequence of NewItemState::add_item calls, every
\* item they persisted in the store has an encrypted_secret whose length is
\* 16 + k * 256 for some integer k >= 1.
C23_DialogStoredLength ==
    DialogStored =>
        /\ Len(dbItems) = Len(ItemsBefore) + 1
        /\ TagAndBlocks(secret_len(StoredRow.encrypted_secret))
        /\ secret_len(StoredRow.encrypted_secret)
                > Len(as_bytes(join(LastEvent.typed.secret))) + TAG_LEN

\* The dialog has stored an item next to one that another caller had
\* stored, and whose encrypted_secret is shorter than a block.
C23_Witness ==
    /\ DialogStored
    /\ Len(ItemsBefore) = 1
    /\ ~TagAndBlocks(secret_len(dbItems[1].encrypted_secret))
    /\ TagAndBlocks(secret_len(StoredRow.encrypted_secret))

\* What the last event gave to decrypt_and_verify, and what was sealed in
\* the encrypted_secret it gave.
GivenInput == uiLast[1].given[1]
Decrypting == PasswordEntered /\ uiLast[1].given # <<>>
SealedSecret == GivenInput.encrypted_secret

\* C24: end-to-end reveal.  The dialog stores the trimmed label, the
\* account and the one timestamp it has bound as additional data, with the
\* padded secret sealed under the password entered; copy_secret_to_clipboard
\* reads them back from the row and gives decrypt_and_verify a label, an
\* account and a last_modified_at that make the additional data sealed at
\* encryption; and with the password of the encryption the secret that was
\* entered is what is decrypted and put on the clipboard.
C24_EndToEndReveal ==
    /\ DialogStored =>
        LET form == LastEvent.typed
            item == from_row(StoredRow)
        IN  /\ item.label = trim(form.label[1])
            /\ item.account = validate_account(form.account).val
            /\ item.last_modified_at = LastEvent.now
            /\ item.encrypted_secret.aad =
                    additional_data_str(item.account, item.label, LastEvent.now)
            /\ item.encrypted_secret.key =
                    hash_password_into(as_bytes(form.enc_pass[1]), item.kdf_salt)
            /\ raw_unpad(item.encrypted_secret.msg) = Ok(as_bytes(join(form.secret)))
    /\ Decrypting =>
        /\ \E i \in 1..Len(dbItems) :
                /\ dbItems[i].uid = StateBefore.items[StateBefore.selected.val + 1].uid
                /\ GivenInput.label = dbItems[i].label
                /\ GivenInput.account = dbItems[i].account
                /\ to_sql_datetime(GivenInput.last_modified_at) = dbItems[i].last_modified_at
                /\ GivenInput.encrypted_secret = dbItems[i].encrypted_secret
                /\ GivenInput.kdf_salt = dbItems[i].kdf_salt
                /\ GivenInput.auth_nonce = dbItems[i].auth_nonce
        /\ additional_data_str(GivenInput.account, GivenInput.label, GivenInput.last_modified_at)
                = SealedSecret.aad
        /\ as_bytes(join(LastEvent.typed)) = SealedSecret.key.password =>
                IF LastEvent.refused
                THEN HandlerResult = Err("Clipboard")
                ELSE /\ HandlerResult.ok
                     /\ clipboard.some
                     /\ Ok(as_bytes(clipboard.val)) = raw_unpad(SealedSecret.msg)

\* The second item, with an account, a timestamp with a fraction of a
\* second and a secret of two lines, has been revealed with its password.
C24_Witness ==
    /\ Decrypting
    /\ HandlerResult.ok
    /\ GivenInput.label = DbLabel(2)
    /\ GivenInput.account.some
    /\ GivenInput.last_modified_at.nano # 0
    /\ clipboard = Some(join(FormSecret(2)))
    /\ join(LastEvent.typed) = FormPassword(2)

\* C25: items are immutable once created.  No open, add_item (successful or
\* failed), list_items_for_display, item_by_id or decryption changes a field
\* of a stored row or removes it: every row keeps its place and its content,
\* and item_by_id with its uid returns the same Item before and after every
\* step, the Item the row holds.
C25_ItemsImmutable ==
    [][\A i \in 1..Len(dbItems) :
            /\ i <= Len(dbItems')
            /\ dbItems'[i] = dbItems[i]
            /\ item_by_id(dbItems', dbItems[i].uid) = item_by_id(dbItems, dbItems[i].uid)
            /\ item_by_id(dbItems, dbItems[i].uid) = Ok(from_row(dbItems[i]))]_vars

\* With two items stored, one has been read by item_by_id and decrypted,
\* and both are as they were.
C25_Witness ==
    /\ Decrypting
    /\ HandlerResult.ok
    /\ Len(ItemsBefore) = 2
    /\ dbItems = ItemsBefore

\* What the claims say of a dialog: the label is one line with something
\* other than white space on it; the account has more than one line; the
\* secret is empty; the password is one line that is not empty; the
\* confirmation is the password.
Dialog == LastEvent.typed
LabelGiven ==
    /\ Len(Dialog.label) = 1
    /\ \E i \in 1..Len(Dialog.label[1]) : ~is_whitespace(Dialog.label[1][i])
AccountOnSeveralLines == Len(Dialog.account) > 1
SecretEmpty == Dialog.secret \in {<<>>, TextArea_default}
PasswordGiven == Len(Dialog.enc_pass) = 1 /\ Dialog.enc_pass[1] # <<>>
ConfirmationDiffers == Dialog.confirm # Dialog.enc_pass
ExpectedValidationError ==
    IF ~LabelGiven THEN Err("LabelRequired")
    ELSE IF AccountOnSeveralLines THEN Err("AccountNameSingleLine")
    ELSE IF SecretEmpty THEN Err("SecretRequired")
    ELSE IF ~PasswordGiven THEN Err("EncryptionPasswordRequired")
    ELSE IF ConfirmationDiffers THEN Err("ConfirmPasswordMismatch")
    ELSE Ok(<<>>)
InputValidationErrors ==
    {"LabelRequired", "AccountNameSingleLine", "SecretRequired",
     "EncryptionPasswordRequired", "ConfirmPasswordMismatch"}

\* C26: input validation precedes crypto and storage.  When the New item
\* dialog is confirmed, add_item returns the input-validation error of the
\* first check the dialog fails (label, account, secret, password,
\* confirmation), and returns such an error in no other case; whenever it
\* does, encrypt_and_authenticate and the store's add_item have not been
\* called and the table is as it was.
C26_ValidationFirst ==
    NewItemEntered =>
        /\ ~ExpectedValidationError.ok => HandlerResult = ExpectedValidationError
        /\ (~HandlerResult.ok /\ HandlerResult.err \in InputValidationErrors) =>
                /\ HandlerResult = ExpectedValidationError
                /\ ~Called("encrypt_and_authenticate")
                /\ ~Called("Database::add_item")
                /\ HandlerCalls = <<>>
                /\ dbItems = ItemsBefore

\* With an item stored, a dialog whose confirmation differs from its
\* password has been refused.
C26_Witness ==
    /\ NewItemEntered
    /\ ItemsBefore # <<>>
    /\ LabelGiven /\ ~AccountOnSeveralLines /\ ~SecretEmpty /\ PasswordGiven
    /\ ConfirmationDiffers
    /\ HandlerResult = Err("ConfirmPasswordMismatch")

\* The password entry was confirmed with no password or with several lines.
TypedPassword == LastEvent.typed
NoSinglePassword ==
    /\ PasswordEntered
    /\ \/ TypedPassword \in {<<>>, TextArea_default}
       \/ Len(TypedPassword) > 1

\* C27 as stated: a missing or multi-line decryption password is an
\* input-validation error, returned without reading the store and without
\* key derivation or decryption.
C27_DecryptionPasswordValidated ==
    NoSinglePassword =>
        /\ ~HandlerResult.ok
        /\ HandlerResult.err \in InputValidationErrors
        /\ ~Called("item_by_id")
        /\ ~Called("decrypt_and_verify")

\* C27, amended: a missing or multi-line decryption password is not
\* validated.  With a row selected, the lines joined by newlines are the
\* password: the item is read from the store and decrypt_and_verify is
\* called with it (so the key is derived), and for an item of the New item
\* dialog, whose password is one non-empty line, the call fails with the
\* authentication error; nothing is put on the clipboard and the table is
\* as it was.  With no row selected the error is SelectionRequired.
C27_DecryptionPasswordUnchecked ==
    NoSinglePassword =>
        IF StateBefore.selected.some
        THEN /\ HandlerCalls = <<"item_by_id", "decrypt_and_verify">>
             /\ uiLast[1].given # <<>>
             /\ HandlerResult = Err("XChaCha20Poly1305")
             /\ dbItems = ItemsBefore
        ELSE HandlerResult = Err("SelectionRequired") /\ HandlerCalls = <<>>

\* The password entry has been confirmed with no password for a stored item.
C27_Witness ==
    /\ NoSinglePassword
    /\ TypedPassword = TextArea_default
    /\ StateBefore.selected.some
    /\ Called("decrypt_and_verify")

\* The buffers that held the text entered, as the handler of the last
\* event has left them.
EnteredBuffers == uiLast[1].buffers
Wiped(buffer) == buffer.dropped /\ buffer.content = zeroed(buffer.content)

\* C30: secrets entered in the UI are wiped on every exit path.  When the
\* New item dialog has been confirmed, whatever add_item returns, and when
\* the password entry has been confirmed and the copy is over, every buffer
\* that held the secret, the encryption password or its confirmation has
\* been dropped with its content overwritten by zeros.
C30_EnteredSecretsWiped ==
    (NewItemEntered \/ PasswordEntered) =>
        \A i \in 1..Len(EnteredBuffers) : Wiped(EnteredBuffers[i])

---------------------------------------------------------------------------
(* Properties of the screen guard. *)

\* The thread holds a guard that open has returned to it and that it has
\* not dropped; it is about to return from open; it has returned an error.
Live(t) == thread[t].pc = "holding"
Returning(t) == thread[t].pc = "return"
ReturnedError(t) == thread[t].pc = "idle" /\ thread[t].opens > 0 /\ ~thread[t].result.ok

\* C28: at most one ScreenGuard is live at any time.  Two threads never
\* both hold a guard, open does not return a guard while another thread
\* holds one, and IS_OPEN is set as long as some thread holds a guard.
C28_OneLiveGuard ==
    /\ \A t, u \in Threads : (Live(t) /\ Live(u)) => t = u
    /\ \A t, u \in Threads : (Returning(t) /\ Live(u)) => ~thread[t].result.ok
    /\ (\E t \in Threads : Live(t)) => IS_OPEN

\* C29: the terminal is always restored when an error occurs.  When a
\* thread's open has returned an error and no other thread has ever called
\* open, the call has left neither raw mode nor the alternate screen
\* enabled that was not enabled before it, and IS_OPEN is what it was at
\* the call.
OnlyCaller(t) == \A u \in Threads \ {t} : thread[u].opens = 0
AtCall(t) == thread[t].at_call[1]
C29_RestoredOnError ==
    \A t \in Threads :
        (ReturnedError(t) /\ OnlyCaller(t)) =>
            /\ terminal.raw => AtCall(t).terminal.raw
            /\ terminal.alternate => AtCall(t).terminal.alternate
            /\ IS_OPEN = AtCall(t).IS_OPEN

\* tui.rs:477-487  main_table_has_focus.
main_table_has_focus(state) ==
    /\ IF state.find.some THEN ~state.find.val.has_focus ELSE TRUE
    /\ ~state.passwd_entry
    /\ ~state.new_item
    /\ ~state.popup_error.some

\* No call is made twice by the handler.
NoRetry == \A i, j \in 1..Len(HandlerCalls) : HandlerCalls[i] = HandlerCalls[j] => i = j

\* The handler returned this error.
Failed(err) == Handled /\ ~HandlerResult.ok /\ HandlerResult.err = err

\* C31: every error an event handler returns is in popup_error after the
\* event, no call has been made twice and is_running is still true;
\* is_running is false only after 'q' was handled by the main table, which
\* had the focus: no popup, no password entry, no New item dialog and no
\* focused find field was there to receive the key.
C31_ErrorsShownNeverFatal ==
    Handled =>
        /\ ~HandlerResult.ok =>
                /\ ui[1].popup_error = Some(HandlerResult.err)
                /\ NoRetry
                /\ ui[1].is_running
        /\ ~ui[1].is_running =>
                /\ LastEvent.code = "q"
                /\ main_table_has_focus(StateBefore)

\* A padding error of a foreign item is in the popup and the session goes on.
C31_Witness ==
    /\ Failed("Unpad")
    /\ ui[1].popup_error = Some("Unpad")
    /\ ui[1].is_running

\* The thread has dropped the guard that open returned to it, and finalize
\* has returned.
Dropped(t) == thread[t].pc = "idle" /\ thread[t].opens > 0 /\ thread[t].result.ok

\* C32: dropping a ScreenGuard releases the screen.  When the only thread
\* that ever called open has dropped its guard, IS_OPEN is false, whatever
\* finalize returned, and no open of that thread returns ScreenAlreadyOpen.
C32_DropReleases ==
    \A t \in Threads :
        OnlyCaller(t) =>
            /\ Dropped(t) => ~IS_OPEN
            /\ ReturnedError(t) => thread[t].result.err # "ScreenAlreadyOpen"

\* The event was this key, and no error popup was shown when it came.
Pressed(code) == Handled /\ LastEvent.code = code /\ ~StateBefore.popup_error.some

\* C33: Esc cancels the New item dialog.  Whenever the dialog is open and no
\* error popup is shown, after an Esc key event the dialog is closed and
\* the store holds what it held, whatever the state of the find panel.
C33_EscCancelsNewItem ==
    (Pressed("Esc") /\ StateBefore.new_item) =>
        /\ ~ui[1].new_item
        /\ dbItems = ItemsBefore

\* The error the handler returned is shown and the store holds what it held.
ShownAndUnchanged ==
    /\ ui[1].popup_error = Some(HandlerResult.err)
    /\ dbItems = ItemsBefore

\* C34: the dialogs close on Enter even when the action fails.  After Enter
\* in the New item dialog new_item is None whatever add_item returned, and
\* after Enter in the password entry passwd_entry is None; when the action
\* failed its error is in the popup and the store is unchanged.
C34_ClosedOnEnter ==
    /\ NewItemEntered =>
            /\ ~ui[1].new_item
            /\ ~HandlerResult.ok => ShownAndUnchanged
    /\ PasswordEntered =>
            /\ ~ui[1].passwd_entry
            /\ ~HandlerResult.ok => ShownAndUnchanged

\* Enter in the New item dialog with a label the store has already: the
\* dialog is closed and the store's refusal is shown.
C34_Witness ==
    /\ NewItemEntered
    /\ ItemsBefore # <<>>
    /\ Failed(ConstraintViolation.err)
    /\ ~ui[1].new_item
    /\ ShownAndUnchanged

\* Two Options, two States hold the same.
same_option(a, b) == a.some = b.some /\ (a.some => a.val = b.val)
SameState(a, b) ==
    /\ a.is_running = b.is_running
    /\ a.passwd_entry = b.passwd_entry
    /\ a.new_item = b.new_item
    /\ same_option(a.find, b.find)
    /\ same_option(a.popup_error, b.popup_error)
    /\ a.items = b.items
    /\ same_option(a.selected, b.selected)

\* C35: the error popup is modal.  While popup_error is set every event is
\* consumed by the popup: Esc clears popup_error and changes nothing else,
\* and any other event changes nothing at all: not the State as it was
\* drawn, not the store, not the clipboard, and nothing is encrypted.
C35_PopupModal ==
    (Handled /\ StateBefore.popup_error.some) =>
        /\ dbItems = ItemsBefore
        /\ clipboard = ClipboardBefore
        /\ HandlerCalls = <<>>
        /\ HandlerResult.ok
        /\ SameState(ui[1],
                     IF LastEvent.code = "Esc"
                     THEN [StateBefore EXCEPT !.popup_error = None]
                     ELSE StateBefore)

\* A key that would open the password entry came while an error was shown
\* over an open Find panel, and the State is what it was.
C35_Witness ==
    /\ Handled
    /\ StateBefore.popup_error.some
    /\ StateBefore.find.some
    /\ LastEvent.code = "c"
    /\ SameState(ui[1], StateBefore)

\* The filter of a State: "%term%", term being the first line of the
\* search field without the blanks around it, when the Find panel is open;
\* none when it is closed.
Filter(state) ==
    IF state.find.some
    THEN Some(<<"%">> \o trim(state.find.val.search_term[1]) \o <<"%">>)
    ELSE None
Mirror(state) == list_items_for_display(dbItems, Filter(state)).val

\* The rows of the displayed list that are the item the dialog stored.
ShownAt == {i \in 1..Len(ui[1].items) : ui[1].items[i].uid = StoredRow.uid}

\* C36: in a single-process run the displayed list mirrors the store.  After
\* every handled event that does not fail, State.items is what
\* list_items_for_display returns for the current search term; an item
\* added through the dialog is in the list, and selected, when it matches
\* the filter; and Esc on the Find panel leaves the unfiltered list.
C36_ListMirrorsStore ==
    (Handled /\ HandlerResult.ok) =>
        /\ ui[1].items = Mirror(ui[1])
        /\ DialogStored =>
                /\ ShownAt # {} <=> where_clause(StoredRow, Filter(ui[1])) = "true"
                /\ \A i \in ShownAt : ui[1].selected = Some(i - 1)
        /\ (Pressed("Esc") /\ StateBefore.find.some /\ ~StateBefore.passwd_entry) =>
                /\ ~ui[1].find.some
                /\ ui[1].items = list_items_for_display(dbItems, None).val

\* With a filter that hides an item of the store, the dialog has stored an
\* item that the filter shows, and its row is selected.
C36_Witness ==
    /\ DialogStored
    /\ ui[1].find.some
    /\ Len(ui[1].items) < Len(dbItems)
    /\ ShownAt # {}
    /\ \A i \in ShownAt : ui[1].selected = Some(i - 1)

JoinedPassword == as_bytes(join(TypedPassword))
SelectedUid == StateBefore.items[StateBefore.selected.val + 1].uid

\* What was given to decrypt_and_verify are the fields of the selected row,
\* and its encrypted_secret is authentic: sealed under the key of the typed
\* password and the row's salt, with the row's nonce and the additional
\* data of the row's label, account and timestamp, and not changed since.
GivenSelectedRow ==
    \E i \in 1..Len(dbItems) :
        /\ dbItems[i].uid = SelectedUid
        /\ GivenInput.encrypted_secret = dbItems[i].encrypted_secret
        /\ GivenInput.kdf_salt = dbItems[i].kdf_salt
        /\ GivenInput.auth_nonce = dbItems[i].auth_nonce
Authenticated ==
    /\ SealedSecret.key = hash_password_into(JoinedPassword, GivenInput.kdf_salt)
    /\ SealedSecret.nonce = GivenInput.auth_nonce
    /\ SealedSecret.aad = additional_data_str(GivenInput.account, GivenInput.label,
                                              GivenInput.last_modified_at)
    /\ changed(SealedSecret) = {}

\* The sealed message is padded and what precedes the padding is UTF-8:
\* the text it encodes.
SealedText == from_utf8(raw_unpad(SealedSecret.msg).val)
WellFormedSecret == raw_unpad(SealedSecret.msg).ok /\ SealedText.ok

\* The store holds what it held when the event came, but for what the other
\* caller has added to an empty store since.
StoreAsBefore ==
    \/ dbItems = ItemsBefore
    \/ /\ ItemsBefore = <<>>
       /\ \E input \in OtherCallersInputs : dbItems = add_item(<<>>, input).items

\* C38: the clipboard receives only an authenticated secret.  When the
\* password entry has been confirmed and the copy succeeded, the clipboard
\* holds the text sealed in the selected row, which authenticated under the
\* typed password and was well padded UTF-8; when it failed, for whatever
\* reason, the clipboard holds what it held.  The store is unchanged either
\* way.
C38_ClipboardAuthenticated ==
    PasswordEntered =>
        /\ StoreAsBefore
        /\ IF HandlerResult.ok
           THEN /\ Decrypting
                /\ GivenSelectedRow
                /\ Authenticated
                /\ WellFormedSecret
                /\ clipboard = Some(SealedText.val)
           ELSE clipboard = ClipboardBefore

\* A secret is on the clipboard; the copy of a row whose secret
\* authenticates but is not UTF-8 fails, and the clipboard keeps it.
C38_Witness ==
    /\ Decrypting
    /\ Authenticated
    /\ Failed("Utf8")
    /\ ClipboardBefore.some
    /\ clipboard = ClipboardBefore

\* The encrypted_secret, the label, the account and the timestamp given to
\* decrypt_and_verify are those of the encryption; the salt, the nonce is.
SecretAndMetadataKept ==
    /\ Given.encrypted_secret = Source.result.val.encrypted_secret
    /\ SameMetadata
SaltKept == Given.kdf_salt = Source.result.val.kdf_salt
NonceKept == Given.auth_nonce = Source.result.val.auth_nonce

\* C39: tampering with the stored salt or nonce is detected.  When the
\* kdf_salt or the auth_nonce given to decrypt_and_verify differs from the
\* one encrypt_and_authenticate returned, decryption with the correct
\* password, the ciphertext and the metadata unchanged, fails with the
\* authentication error, the one a wrong password gets with nothing altered.
C39_SaltAndNonceAuthenticated ==
    (Decrypted /\ SecretAndMetadataKept) =>
        /\ (SamePassword /\ (~SaltKept \/ ~NonceKept)) => Outcome = AuthenticationError
        /\ (~SamePassword /\ SaltKept /\ NonceKept) => Outcome = AuthenticationError

\* The salt alone was altered and the correct password given.
C39_Witness ==
    /\ Decrypted
    /\ SecretAndMetadataKept
    /\ SamePassword
    /\ ~SaltKept
    /\ NonceKept
    /\ Outcome = AuthenticationError

\* The State after one more frame in which Esc is pressed.
AfterEsc(state) ==
    handle_events(draw(state),
                  [items |-> dbItems, rng |-> rng, clipboard |-> clipboard],
                  key("Esc")).state

\* No popup, panel or dialog is open.
AllClosed(state) ==
    /\ ~state.popup_error.some
    /\ ~state.passwd_entry
    /\ ~state.find.some
    /\ ~state.new_item

\* How many of the popup, the password entry, the Find panel and the New
\* item dialog are open.
OpenPanels(state) ==
    (IF state.popup_error.some THEN 1 ELSE 0) + (IF state.passwd_entry THEN 1 ELSE 0)
        + (IF state.find.some THEN 1 ELSE 0) + (IF state.new_item THEN 1 ELSE 0)

\* C40: Esc always leads back to the main table.  From every State the
\* program reaches, three consecutive Esc presses leave popup_error,
\* passwd_entry, find and new_item closed and the main table with the
\* focus; an Esc that was handled has closed one of the open panels; and the
\* password entry and the New item dialog are never open together.
C40_EscLeadsBack ==
    ui # <<>> =>
        /\ AllClosed(AfterEsc(AfterEsc(AfterEsc(ui[1]))))
        /\ main_table_has_focus(AfterEsc(AfterEsc(AfterEsc(ui[1]))))
        /\ ~(ui[1].passwd_entry /\ ui[1].new_item)
        /\ (Handled /\ LastEvent.code = "Esc" /\ OpenPanels(StateBefore) > 0) =>
                OpenPanels(ui[1]) = OpenPanels(StateBefore) - 1

\* The Find panel and the New item dialog are open: one Esc does not give
\* the main table the focus, two do.
C40_Witness ==
    /\ ui # <<>>
    /\ ui[1].find.some
    /\ ui[1].new_item
    /\ ~main_table_has_focus(AfterEsc(ui[1]))
    /\ AllClosed(AfterEsc(AfterEsc(ui[1])))


=======================================================================
